---- MODULE Spec2Model ----
(***************************************************************************)
(* Model of the agvCollider package of lnhlg/gbm-common: geometry kernel,  *)
(* sub-path tracker, exact and sampled collision detectors, KD-tree index, *)
(* fleet orchestration and conflict resolution.                            *)
(*                                                                         *)
(* Numbers.  The Go code computes in float64.  The model computes in       *)
(* integers and draws its inputs so that every quotient and square root    *)
(* the code takes on them is exact:                                        *)
(*   - coordinates, widths and speeds are even integers, path segments are *)
(*     axis-aligned or have an integer length (6-8-10 triangles);          *)
(*   - the sampled detector counts time in default steps (0.1 s): dt,      *)
(*     timeRange and timeStep are whole numbers of default steps and a     *)
(*     speed is a length per default step; the rounding of the float sum   *)
(*     t += timeStep is not modelled;                                      *)
(*   - an arrival time s/v of the exact detector is held in units of       *)
(*     1/TimeScale, so tol, safeGap and WaitTime are in that unit too;     *)
(*   - a distance that the code only compares is compared on its square    *)
(*     (Dist2), a length that the code adds up is its exact root           *)
(*     (getDistance);                                                      *)
(*   - the IEEE values the code can produce by dividing by zero are kept:  *)
(*     NaN (0/0), Inf and -Inf (x/0), with the comparison rules of IEEE    *)
(*     (every comparison with NaN is false).                               *)
(* A heading (math.Atan2) is held as the reduced direction vector of the   *)
(* segment, Atan2(0,0) being the direction of angle 0.                     *)
(*                                                                         *)
(* Pointers.  A *AGV is the vehicle's Id; fleet is the heap (Id -> AGV)    *)
(* and agvs is the caller's slice of pointers, which buildKDTree sorts in  *)
(* place.                                                                  *)
(***************************************************************************)
EXTENDS Integers, Sequences, FiniteSets, TLC

VARIABLES
    fleet,  \* heap: Id -> AGV record (Id, Width, Pose, Speed, Path, SubPath, InitDone)
    agvs,   \* the caller's []*AGV: a sequence of Ids
    root,   \* the KD-tree buildKDTree last returned to the caller (Nil: none)
    pre,    \* fleet as it was when the last operation was called
    op,     \* the last operation and its arguments
    ret     \* what the last operation returned

vars == <<fleet, agvs, root, pre, op, ret>>

-----------------------------------------------------------------------------
(* float64 special values and arithmetic *)

Inf == 1000000
NaN == 2000000
MaxFloat64 == 999999
TimeScale == 4

IsNaN(x) == x = NaN
IsInf(x) == x = Inf \/ x = -Inf

FAdd(a, b) ==
    IF IsNaN(a) \/ IsNaN(b) THEN NaN
    ELSE IF IsInf(a) /\ IsInf(b) THEN (IF a = b THEN a ELSE NaN)
    ELSE IF IsInf(a) THEN a
    ELSE IF IsInf(b) THEN b
    ELSE a + b

FNeg(a) == IF IsNaN(a) THEN NaN ELSE -a

FSub(a, b) == FAdd(a, FNeg(b))

FAbs(a) == IF IsNaN(a) THEN NaN ELSE IF a < 0 THEN -a ELSE a

FLe(a, b) == ~IsNaN(a) /\ ~IsNaN(b) /\ a <= b
FLt(a, b) == ~IsNaN(a) /\ ~IsNaN(b) /\ a < b
FGt(a, b) == ~IsNaN(a) /\ ~IsNaN(b) /\ a > b

FMin(a, b) == IF IsNaN(a) \/ IsNaN(b) THEN NaN ELSE IF a <= b THEN a ELSE b

\* x * y for finite y /= NaN
FMulInt(x, y) ==
    IF IsNaN(x) THEN NaN
    ELSE IF IsInf(x) THEN (IF y = 0 THEN NaN ELSE IF y > 0 THEN x ELSE -x)
    ELSE x * y

\* x / 2 on a finite or special value
FHalf(x) == IF IsNaN(x) \/ IsInf(x) THEN x ELSE x \div 2

\* s / v, a time in units of 1/TimeScale
TimeDiv(s, v) ==
    IF v = 0 THEN (IF s = 0 THEN NaN ELSE IF s > 0 THEN Inf ELSE -Inf)
    ELSE (s * TimeScale) \div v

Min(a, b) == IF a <= b THEN a ELSE b
Max(a, b) == IF a >= b THEN a ELSE b
Abs(a) == IF a < 0 THEN -a ELSE a

RECURSIVE GCD(_, _)
GCD(a, b) == IF b = 0 THEN a ELSE GCD(b, a % b)

ISqrt(n) == CHOOSE r \in 0..n : r * r <= n /\ (r + 1) * (r + 1) > n

\* math.Hypot on finite arguments, exact when dx*dx + dy*dy is a square
Hypot(dx, dy) == ISqrt(dx * dx + dy * dy)

\* math.Atan2(dy, dx) as the reduced direction it is the angle of
Atan2(dy, dx) ==
    IF dx = 0 /\ dy = 0 THEN <<1, 0>>
    ELSE LET g == GCD(Abs(dx), Abs(dy)) IN <<dx \div g, dy \div g>>

-----------------------------------------------------------------------------
(* agvPose.go: data and geometry kernel *)

Point(x, y) == [X |-> x, Y |-> y]
Pose(x, y, t) == [X |-> x, Y |-> y, T |-> t]
Segment(s, e) == [Start |-> s, End |-> e]
ZeroPoint == Point(0, 0)
ZeroPose == Pose(0, 0, <<1, 0>>)

AGV(id, width, pose, speed, path) ==
    [Id |-> id, Width |-> width, Pose |-> pose, Speed |-> speed,
     Path |-> path, SubPath |-> <<>>, InitDone |-> FALSE]

getDistance(p1, p2) == Hypot(p2.X - p1.X, p2.Y - p1.Y)

\* the square of math.Hypot(b.X - a.X, b.Y - a.Y); NaN if a coordinate is NaN
Dist2(a, b) ==
    IF IsNaN(a.X) \/ IsNaN(a.Y) \/ IsNaN(b.X) \/ IsNaN(b.Y) THEN NaN
    ELSE (b.X - a.X) * (b.X - a.X) + (b.Y - a.Y) * (b.Y - a.Y)

dot(ax, ay, bx, by) == ax * bx + ay * by

cross(ax, ay, bx, by) == ax * by - ay * bx

\* interpolate(p1, p2, num/den); den = 0 is the ratio 0/0 or x/0, which
\* makes both coordinates NaN (NaN * d, and Inf * 0 or NaN + ...)
interpolate(p1, p2, num, den) ==
    IF den = 0 THEN Point(NaN, NaN)
    ELSE Point(p1.X + ((p2.X - p1.X) * num) \div den,
               p1.Y + ((p2.Y - p1.Y) * num) \div den)

\* the point of projectPointOnSegment (its t is num/den, clamped to [0,1])
projectPointOnSegment(pose, seg) ==
    LET vx == seg.End.X - seg.Start.X
        vy == seg.End.Y - seg.Start.Y
        segLen2 == vx * vx + vy * vy
    IN  IF segLen2 = 0 THEN [P |-> seg.Start, Num |-> 0, Den |-> 1]
        ELSE IF IsNaN(pose.X) \/ IsNaN(pose.Y)
        THEN [P |-> Point(NaN, NaN), Num |-> NaN, Den |-> 1]
        ELSE LET wx == pose.X - seg.Start.X
                 wy == pose.Y - seg.Start.Y
                 d == dot(wx, wy, vx, vy)
                 t == IF d < 0 THEN 0 ELSE IF d > segLen2 THEN segLen2 ELSE d
             IN  [P |-> Point(seg.Start.X + (t * vx) \div segLen2,
                              seg.Start.Y + (t * vy) \div segLen2),
                  Num |-> t, Den |-> segLen2]

-----------------------------------------------------------------------------
(* agvPose.go: sub-path tracker *)

PosePoint(pose) == Point(pose.X, pose.Y)

\* if d < minDist { minDist = d; segIdx = i; proj = p }
\* best = [minDist, segIdx, proj], minDist being the square of the code's
Closer(best, i, p, d) ==
    IF FLt(d, best.minDist) THEN [minDist |-> d, segIdx |-> i, proj |-> p] ELSE best

\* one pass of the loop of GenerateSubPath, p being the projection on segment i
ProjectionAt(best, pose, i, p) == Closer(best, i, p, Dist2(PosePoint(pose), p))

\* the loop of GenerateSubPath over the segments i..n-2 (0-based) of basePath
RECURSIVE NearestProjection(_, _, _, _)
NearestProjection(basePath, pose, i, best) ==
    IF i >= Len(basePath) - 1 THEN best
    ELSE NearestProjection(basePath, pose, i + 1,
             ProjectionAt(best, pose, i,
                 projectPointOnSegment(pose, Segment(basePath[i + 1], basePath[i + 2])).P))

\* variant of NewSubPath that keeps every point of basePath
NewSubPathWhole(basePath, best) == <<best.proj>> \o basePath

\* variant of NewSubPath that leaves out the end of the nearest segment when
\* the projection falls on it
NewSubPathNoRepeat(basePath, best) ==
    IF best.proj = basePath[best.segIdx + 2]
    THEN SubSeq(basePath, best.segIdx + 2, Len(basePath))
    ELSE <<best.proj>> \o SubSeq(basePath, best.segIdx + 2, Len(basePath))

\* newPath = [proj] + basePath[segIdx+1:]
NewSubPath(basePath, best) ==
    <<best.proj>> \o SubSeq(basePath, best.segIdx + 2, Len(basePath))

\* agv.SubPath = newPath; return newPath
CacheSubPath(agv, newPath) == [agv |-> [agv EXCEPT !.SubPath = newPath], ret |-> newPath]

\* GenerateSubPath from its choice of basePath on; agv has InitDone set
SubPathOn(agv, basePath) ==
    IF Len(basePath) < 2 THEN [agv |-> agv, ret |-> basePath]
    ELSE CacheSubPath(agv,
             NewSubPath(basePath,
                 NearestProjection(basePath, agv.Pose, 0,
                     [minDist |-> MaxFloat64, segIdx |-> 0, proj |-> ZeroPoint])))

\* agv.GenerateSubPath(): the vehicle afterwards and the slice returned
GenerateSubPath(agv) ==
    IF ~agv.InitDone \/ Len(agv.SubPath) < 2
    THEN SubPathOn([agv EXCEPT !.InitDone = TRUE], agv.Path)
    ELSE SubPathOn(agv, agv.SubPath)

\* segmentLengths[k], k in 0..n-2
SegmentLength(path, k) == getDistance(path[k + 1], path[k + 2])

\* cumulativeLengths[i], i in 0..n-1
RECURSIVE CumulativeLength(_, _)
CumulativeLength(path, i) ==
    IF i = 0 THEN 0 ELSE CumulativeLength(path, i - 1) + SegmentLength(path, i - 1)

\* Step4 of PredictPosition: segIdx stays 0 when the loop never breaks
RECURSIVE FindSegment(_, _, _)
FindSegment(path, targetS, i) ==
    IF i >= Len(path) THEN 0
    ELSE IF targetS <= CumulativeLength(path, i) THEN i - 1
    ELSE FindSegment(path, targetS, i + 1)

\* agv.Pose = Pose{...}; return agv.Pose
MoveTo(agv, pose) == [agv |-> [agv EXCEPT !.Pose = pose], ret |-> pose]

\* Step3 of PredictPosition: the last point, heading along the last segment
EndPose(newPath, n) ==
    Pose(newPath[n].X, newPath[n].Y,
         Atan2(newPath[n].Y - newPath[n - 1].Y, newPath[n].X - newPath[n - 1].X))

\* Step5 of PredictPosition: the pose at pt on the segment segStart..segEnd
PoseOn(pt, segStart, segEnd) ==
    Pose(pt.X, pt.Y, Atan2(segEnd.Y - segStart.Y, segEnd.X - segStart.X))

\* Step5 of PredictPosition: interpolation on segment segIdx, the ratio being
\* distOnSeg / segLen
PoseOnSegment(newPath, targetS, segIdx) ==
    PoseOn(interpolate(newPath[segIdx + 1], newPath[segIdx + 2],
                       targetS - CumulativeLength(newPath, segIdx),
                       SegmentLength(newPath, segIdx)),
           newPath[segIdx + 1], newPath[segIdx + 2])

\* PredictPosition after its GenerateSubPath call returned g, with
\* targetS = Speed * dt
PredictOn(g, targetS) ==
    IF Len(g.ret) < 2 THEN [agv |-> g.agv, ret |-> g.agv.Pose]
    ELSE IF targetS >= CumulativeLength(g.ret, Len(g.ret) - 1)
    THEN MoveTo(g.agv, EndPose(g.ret, Len(g.ret)))
    ELSE MoveTo(g.agv, PoseOnSegment(g.ret, targetS, FindSegment(g.ret, targetS, 1)))

\* agv.PredictPosition(dt): the vehicle afterwards and the pose returned
PredictPosition(agv, dt) == PredictOn(GenerateSubPath(agv), agv.Speed * dt)

-----------------------------------------------------------------------------
(* agvPose.go: sampled detector *)

DefaultTimeStep == 1

NoPrediction == [AGV1 |-> 0, AGV2 |-> 0, CollisionTime |-> 0, CollisionPoint |-> ZeroPoint,
                 AGV1Pose |-> ZeroPose, AGV2Pose |-> ZeroPose,
                 Distance |-> 0, CollisionThreshold |-> 0]

\* variant of WithinThreshold that leaves out a distance equal to the threshold
WithinThresholdStrict(distance, collisionThreshold) ==
    FLt(distance, collisionThreshold * collisionThreshold)

\* distance <= collisionThreshold, on squares (collisionThreshold >= 0)
WithinThreshold(distance, collisionThreshold) ==
    FLe(distance, collisionThreshold * collisionThreshold)

\* t < earliestTime: only the first sample within the threshold is recorded
IsEarlier(t, earliestTime) == t < earliestTime

\* the CollisionPrediction recorded for a sample.
\* CollisionPrediction.Distance holds the square of the measured distance.
PredictionAt(id1, id2, t, pose1, pose2, distance, collisionThreshold) ==
    [AGV1 |-> id1, AGV2 |-> id2, CollisionTime |-> t,
     CollisionPoint |-> Point(FHalf(FAdd(pose1.X, pose2.X)),
                              FHalf(FAdd(pose1.Y, pose2.Y))),
     AGV1Pose |-> pose1, AGV2Pose |-> pose2,
     Distance |-> distance,
     CollisionThreshold |-> collisionThreshold]

\* the body of the sampling loop from the distance test on.
\* st = [fleet, found, earliestTime, earliestCollision, samples], samples
\* being the poses the two PredictPosition calls returned, in order.
Record(st, f, id1, id2, t, pose1, pose2, collisionThreshold, hit) ==
    [fleet |-> f,
     found |-> st.found \/ hit,
     earliestTime |-> IF hit THEN t ELSE st.earliestTime,
     earliestCollision |->
         IF hit
         THEN PredictionAt(id1, id2, t, pose1, pose2, Dist2(pose1, pose2),
                           collisionThreshold)
         ELSE st.earliestCollision,
     samples |-> Append(st.samples, [t |-> t, pose1 |-> pose1, pose2 |-> pose2])]

\* the body of the sampling loop once both forecasts are made; r2 is what
\* other.PredictPosition(t) returned, f the heap after agv.PredictPosition(t)
Measure(st, f, id1, id2, t, pose1, r2, collisionThreshold) ==
    Record(st, [f EXCEPT ![id2] = r2.agv], id1, id2, t, pose1, r2.ret,
           collisionThreshold,
           WithinThreshold(Dist2(pose1, r2.ret), collisionThreshold)
               /\ IsEarlier(t, st.earliestTime))

\* the body of the sampling loop after pose1 := agv.PredictPosition(t)
\* returned pose1 and left the heap f
SecondForecast(st, f, id1, id2, t, pose1, collisionThreshold) ==
    Measure(st, f, id1, id2, t, pose1, PredictPosition(f[id2], t), collisionThreshold)

\* the heap after agv.PredictPosition(t) returned r1
FirstForecast(st, id1, id2, t, r1, collisionThreshold) ==
    SecondForecast(st, [st.fleet EXCEPT ![id1] = r1.agv], id1, id2, t, r1.ret,
                   collisionThreshold)

\* one pass of the sampling loop of PredictCollisionWith at time t
SampleStep(st, id1, id2, t, collisionThreshold) ==
    FirstForecast(st, id1, id2, t, PredictPosition(st.fleet[id1], t), collisionThreshold)

RECURSIVE SampleLoop(_, _, _, _, _, _, _)
SampleLoop(st, id1, id2, t, timeRange, timeStep, collisionThreshold) ==
    IF t > timeRange THEN st
    ELSE SampleLoop(SampleStep(st, id1, id2, t, collisionThreshold),
                    id1, id2, t + timeStep, timeRange, timeStep, collisionThreshold)

\* what PredictCollisionWith returns after its loop, with the heap as the
\* loop left it and the samples taken
PredictionOf(st, collisionThreshold) ==
    [fleet |-> st.fleet, found |-> st.found, collision |-> st.earliestCollision,
     samples |-> st.samples, threshold |-> collisionThreshold]

\* agv.PredictCollisionWith(other, timeRange, timeStep, collisionThreshold) on
\* heap f
PredictCollisionWith(f, id1, id2, timeRange, timeStep0, collisionThreshold0) ==
    LET timeStep == IF timeStep0 <= 0 THEN DefaultTimeStep ELSE timeStep0
        collisionThreshold ==
            IF collisionThreshold0 <= 0
            THEN (f[id1].Width + f[id2].Width) \div 2
            ELSE collisionThreshold0
    IN  PredictionOf(
            SampleLoop([fleet |-> f, found |-> FALSE, earliestTime |-> timeRange + 1,
                        earliestCollision |-> NoPrediction, samples |-> <<>>],
                       id1, id2, 0, timeRange, timeStep, collisionThreshold),
            collisionThreshold)

-----------------------------------------------------------------------------
(* segment.go, path.go: segment intersection and path distance *)

\* variant of InBothRanges that tests t only
InFirstRange(tn, un, ad) == tn >= 0 /\ tn <= ad

\* t >= 0 && t <= 1 && u >= 0 && u <= 1, with t = tn / ad and u = un / ad
InBothRanges(tn, un, ad) == tn >= 0 /\ tn <= ad /\ un >= 0 /\ un <= ad

\* segmentIntersect(s1, s2, width): [ok, pt].  The test
\* max(minA,minB) <= min(maxA,maxB) + width/2 is taken on both sides doubled.
segmentIntersect(s1, s2, width) ==
    LET dx1 == s1.End.X - s1.Start.X
        dy1 == s1.End.Y - s1.Start.Y
        dx2 == s2.End.X - s2.Start.X
        dy2 == s2.End.Y - s2.Start.Y
        rx == s2.Start.X - s1.Start.X
        ry == s2.Start.Y - s1.Start.Y
        denom == cross(dx1, dy1, dx2, dy2)
        none == [ok |-> FALSE, pt |-> ZeroPoint]
    IN  IF denom = 0
        THEN IF cross(rx, ry, dx1, dy1) = 0
             THEN IF dx1 # 0
                  THEN LET minA == Min(s1.Start.X, s1.End.X)
                           maxA == Max(s1.Start.X, s1.End.X)
                           minB == Min(s2.Start.X, s2.End.X)
                           maxB == Max(s2.Start.X, s2.End.X)
                           overlapStart == Max(minA, minB)
                           overlapEnd == Min(maxA, maxB)
                       IN  IF 2 * overlapStart <= 2 * overlapEnd + width
                           THEN [ok |-> TRUE,
                                 pt |-> Point((overlapStart + overlapEnd) \div 2, s1.Start.Y)]
                           ELSE none
                  ELSE LET minA == Min(s1.Start.Y, s1.End.Y)
                           maxA == Max(s1.Start.Y, s1.End.Y)
                           minB == Min(s2.Start.Y, s2.End.Y)
                           maxB == Max(s2.Start.Y, s2.End.Y)
                           overlapStart == Max(minA, minB)
                           overlapEnd == Min(maxA, maxB)
                       IN  IF 2 * overlapStart <= 2 * overlapEnd + width
                           THEN [ok |-> TRUE,
                                 pt |-> Point(s1.Start.X, (overlapStart + overlapEnd) \div 2)]
                           ELSE none
             ELSE none
        ELSE LET sg == IF denom > 0 THEN 1 ELSE -1
                 tn == sg * cross(rx, ry, dx2, dy2)   \* t = tn / ad
                 un == sg * cross(rx, ry, dx1, dy1)   \* u = un / ad
                 ad == sg * denom
             IN  IF InBothRanges(tn, un, ad)
                 THEN [ok |-> TRUE,
                       pt |-> Point(s1.Start.X + (tn * dx1) \div ad,
                                    s1.Start.Y + (tn * dy1) \div ad)]
                 ELSE none

\* t of closestPointOnSegment as a numerator over ab2, clamped to [0, 1]
ClampedDot(d, ab2) == IF d < 0 THEN 0 ELSE IF d > ab2 THEN ab2 ELSE d

\* Point{seg.Start.X + abx*t, seg.Start.Y + aby*t} with t = tn / ab2
PointAt(seg, abx, aby, tn, ab2) ==
    Point(seg.Start.X + (abx * tn) \div ab2, seg.Start.Y + (aby * tn) \div ab2)

\* closestPointOnSegment once ab and ab2 are known
ClosestOn(p, seg, abx, aby, ab2) ==
    IF ab2 = 0 THEN seg.Start
    ELSE PointAt(seg, abx, aby,
                 ClampedDot(dot(p.X - seg.Start.X, p.Y - seg.Start.Y, abx, aby), ab2),
                 ab2)

\* closestPointOnSegment once abx, aby are known
ClosestAlong(p, seg, abx, aby) == ClosestOn(p, seg, abx, aby, abx * abx + aby * aby)

closestPointOnSegment(p, seg) ==
    ClosestAlong(p, seg, seg.End.X - seg.Start.X, seg.End.Y - seg.Start.Y)

\* variant of CandidateDistance that measures from the endpoints of one
\* segment only
CandidateDistanceOneSegment(s1, s2, c) ==
    Min(Dist2(s1.Start, c), Dist2(s1.End, c))

\* d of the loop of segmentDistance for candidate c, as a square
CandidateDistance(s1, s2, c) ==
    Min(Min(Dist2(s1.Start, c), Dist2(s1.End, c)),
        Min(Dist2(s2.Start, c), Dist2(s2.End, c)))

\* if d < minD { minD = d; best = c }
NearerCandidate(st, c, d) == IF FLt(d, st.minD) THEN [minD |-> d, best |-> c] ELSE st

\* the loop of segmentDistance over candidates[k..]; st = [minD, best]
RECURSIVE CandidateLoop(_, _, _, _, _)
CandidateLoop(s1, s2, candidates, k, st) ==
    IF k > Len(candidates) THEN st
    ELSE CandidateLoop(s1, s2, candidates, k + 1,
             NearerCandidate(st, candidates[k], CandidateDistance(s1, s2, candidates[k])))

\* segmentDistance(s1, s2): [minD, best], minD being the square of the
\* distance returned
segmentDistance(s1, s2) ==
    CandidateLoop(s1, s2,
                  <<closestPointOnSegment(s1.Start, s2), closestPointOnSegment(s1.End, s2),
                    closestPointOnSegment(s2.Start, s1), closestPointOnSegment(s2.End, s1)>>,
                  1, [minD |-> MaxFloat64, best |-> ZeroPoint])

\* the loop of pathDistanceToPoint from segment i (0-based) with total so far;
\* on integer coordinates the 1e-6 slack of the range test admits nothing more
RECURSIVE PathDistanceFrom(_, _, _, _)
PathDistanceFrom(path, p, i, total) ==
    IF i >= Len(path) - 1 THEN total
    ELSE LET a == path[i + 1]
             b == path[i + 2]
         IN  IF cross(p.X - a.X, p.Y - a.Y, b.X - a.X, b.Y - a.Y) = 0
                /\ p.X >= Min(a.X, b.X) /\ p.X <= Max(a.X, b.X)
                /\ p.Y >= Min(a.Y, b.Y) /\ p.Y <= Max(a.Y, b.Y)
             THEN total + getDistance(a, p)
             ELSE PathDistanceFrom(path, p, i + 1, total + getDistance(a, b))

pathDistanceToPoint(path, p) == PathDistanceFrom(path, p, 0, 0)

-----------------------------------------------------------------------------
(* collision.go: exact detector *)

ZeroCollision == [Point |-> ZeroPoint, PathADist |-> 0, PathBDist |-> 0,
                  TimeA |-> 0, TimeB |-> 0, TimeDiff |-> 0]

ZeroEvent == [AGV1 |-> 0, AGV2 |-> 0, Point |-> ZeroPoint,
              Time1 |-> 0, Time2 |-> 0, DeltaT |-> 0]

\* the Collision that findAllCollisions appends for an intersection at pt,
\* sA and sB being the path distances to it and tA, tB the arrival times
CollisionOf(pt, sA, sB, tA, tB) ==
    [Point |-> pt, PathADist |-> sA, PathBDist |-> sB,
     TimeA |-> tA, TimeB |-> tB, TimeDiff |-> FAbs(FSub(tA, tB))]

\* tA := sA / vA, tB := sB / vB
CollisionTimes(pt, sA, sB, vA, vB) ==
    CollisionOf(pt, sA, sB, TimeDiv(sA, vA), TimeDiv(sB, vB))

\* sA := pathDistanceToPoint(pathA, pt), sB := pathDistanceToPoint(pathB, pt)
CollisionRecord(pathA, pathB, vA, vB, pt) ==
    CollisionTimes(pt, pathDistanceToPoint(pathA, pt), pathDistanceToPoint(pathB, pt),
                   vA, vB)

\* the body of the two loops of findAllCollisions once segmentIntersect
\* returned r
AppendIfHit(collisions, pathA, pathB, vA, vB, r) ==
    IF r.ok THEN Append(collisions, CollisionRecord(pathA, pathB, vA, vB, r.pt))
    ELSE collisions

\* the body of the two loops of findAllCollisions for segments i of pathA and
\* j of pathB (0-based): the collisions with this pair's appended
CollisionAt(collisions, pathA, pathB, vA, vB, width, i, j) ==
    AppendIfHit(collisions, pathA, pathB, vA, vB,
                segmentIntersect(Segment(pathA[i + 1], pathA[i + 2]),
                                 Segment(pathB[j + 1], pathB[j + 2]), width))

RECURSIVE CollisionLoop(_, _, _, _, _, _, _, _)
CollisionLoop(collisions, pathA, pathB, vA, vB, width, i, j) ==
    IF i >= Len(pathA) - 1 THEN collisions
    ELSE IF j >= Len(pathB) - 1
    THEN CollisionLoop(collisions, pathA, pathB, vA, vB, width, i + 1, 0)
    ELSE CollisionLoop(CollisionAt(collisions, pathA, pathB, vA, vB, width, i, j),
                       pathA, pathB, vA, vB, width, i, j + 1)

findAllCollisions(pathA, pathB, vA, vB, width) ==
    CollisionLoop(<<>>, pathA, pathB, vA, vB, width, 0, 0)

\* variant of TakesCollision that drops the tolerance test
TakesCollisionAnyDiff(c, tol, minTime) ==
    FLt(FMin(c.TimeA, c.TimeB), minTime)

\* whether the loop of earliestCollision takes c, given minTime so far
TakesCollision(c, tol, minTime) ==
    FLe(c.TimeDiff, tol) /\ FLt(FMin(c.TimeA, c.TimeB), minTime)

\* the loop body of earliestCollision for c
TakeIf(c, tol, st) ==
    IF TakesCollision(c, tol, st.minTime)
    THEN [minTime |-> FMin(c.TimeA, c.TimeB), best |-> c, found |-> TRUE]
    ELSE st

\* the loop of earliestCollision over all[k..]; st = [minTime, best, found]
RECURSIVE EarliestLoop(_, _, _, _)
EarliestLoop(all, tol, k, st) ==
    IF k > Len(all) THEN st
    ELSE EarliestLoop(all, tol, k + 1, TakeIf(all[k], tol, st))

\* what earliestCollision returns after its loop
EarliestResult(st) == [found |-> st.found, best |-> st.best]

\* earliestCollision once findAllCollisions returned all
EarliestOf(all, tol) ==
    IF Len(all) = 0 THEN [found |-> FALSE, best |-> ZeroCollision]
    ELSE EarliestResult(EarliestLoop(all, tol, 1,
             [minTime |-> MaxFloat64, best |-> ZeroCollision, found |-> FALSE]))

earliestCollision(pathA, pathB, vA, vB, width, tol) ==
    EarliestOf(findAllCollisions(pathA, pathB, vA, vB, width), tol)

\* what DetectCollisionWith returns once earliestCollision returned r
EventOf(id, other, r) ==
    IF r.found
    THEN [ok |-> TRUE,
          event |-> [AGV1 |-> id, AGV2 |-> other, Point |-> r.best.Point,
                     Time1 |-> r.best.TimeA, Time2 |-> r.best.TimeB,
                     DeltaT |-> r.best.TimeDiff]]
    ELSE [ok |-> FALSE, event |-> ZeroEvent]

\* variant of DetectCollisionWith that follows what is left of the paths
\* (SubPath) once a vehicle has been tracked
DetectCollisionWithSubPath(f, id, other, tol) ==
    EventOf(id, other,
            earliestCollision(IF f[id].InitDone THEN f[id].SubPath ELSE f[id].Path,
                              IF f[other].InitDone THEN f[other].SubPath ELSE f[other].Path,
                              f[id].Speed, f[other].Speed,
                              (f[id].Width + f[other].Width) \div 2, tol))

\* agv.DetectCollisionWith(other, tol) on heap f: [ok, event]
DetectCollisionWith(f, id, other, tol) ==
    EventOf(id, other,
            earliestCollision(f[id].Path, f[other].Path, f[id].Speed, f[other].Speed,
                              (f[id].Width + f[other].Width) \div 2, tol))

-----------------------------------------------------------------------------
(* kdNode.go: KD-tree *)

Nil == <<>>

SeqToSet(s) == {s[k] : k \in 1..Len(s)}

\* the comparison key of buildKDTree's less function at this axis
AxisKey(f, id, axis) == IF axis = 0 THEN f[id].Pose.X ELSE f[id].Pose.Y

\* the orders sort.Slice may leave the ids S in, after an element of key
\* last (NaN: nothing before).  sort.Slice is not stable, so elements with
\* equal keys come out in any order; an outcome is any order in which no
\* element is less than the one before it.  Without NaN keys those are the
\* sorted orders, found by always taking a minimum next.
RECURSIVE SortOutcomes(_, _, _, _)
SortOutcomes(f, S, axis, last) ==
    IF S = {} THEN {<<>>}
    ELSE LET noNaN == \A o \in S : ~IsNaN(AxisKey(f, o, axis))
             cand == {e \in S :
                         /\ ~FLt(AxisKey(f, e, axis), last)
                         /\ noNaN => \A o \in S : ~FLt(AxisKey(f, o, axis), AxisKey(f, e, axis))}
         IN  UNION {{<<e>> \o t : t \in SortOutcomes(f, S \ {e}, axis, AxisKey(f, e, axis))}
                    : e \in cand}

SortSlice(f, slice, axis) == SortOutcomes(f, SeqToSet(slice), axis, NaN)

\* buildKDTree(agvs, depth) on heap f: every [node, agvs] it may return, agvs
\* being the slice as the in-place sorts leave it
RECURSIVE buildKDTree(_, _, _)
buildKDTree(f, slice, depth) ==
    IF Len(slice) = 0 THEN {[node |-> Nil, agvs |-> <<>>]}
    ELSE UNION {
             LET median == Len(sorted) \div 2
             IN  {[node |-> [AGV |-> sorted[median + 1], Left |-> l.node,
                             Right |-> r.node, Depth |-> depth],
                   agvs |-> l.agvs \o <<sorted[median + 1]>> \o r.agvs]
                  : l \in buildKDTree(f, SubSeq(sorted, 1, median), depth + 1),
                    r \in buildKDTree(f, SubSeq(sorted, median + 2, Len(sorted)),
                                      depth + 1)}
             : sorted \in SortSlice(f, slice, depth % 2)}

\* distance(a, b) <= r, on squares
WithinDistance(f, a, b, r) == r >= 0 /\ FLe(Dist2(f[a].Pose, f[b].Pose), r * r)

\* variant of ReachesPlane that skips a plane exactly r away
ReachesPlaneStrict(diff, r) == FLt(FAbs(diff), r)

\* math.Abs(diff) <= r: the other half-space is searched too
ReachesPlane(diff, r) == FLe(FAbs(diff), r)

\* rangeSearch(node, target, r, &results) on heap f: results afterwards
RECURSIVE rangeSearch(_, _, _, _, _)
rangeSearch(f, node, target, r, results) ==
    IF node = Nil THEN results
    ELSE LET res1 == IF node.AGV # target /\ WithinDistance(f, node.AGV, target, r)
                     THEN Append(results, node.AGV)
                     ELSE results
             axis == node.Depth % 2
             diff == IF axis = 0
                     THEN FSub(f[target].Pose.X, f[node.AGV].Pose.X)
                     ELSE FSub(f[target].Pose.Y, f[node.AGV].Pose.Y)
         IN  IF FLe(diff, 0)
             THEN LET res2 == rangeSearch(f, node.Left, target, r, res1)
                  IN  IF FLe(FAbs(diff), r)
                      THEN rangeSearch(f, node.Right, target, r, res2)
                      ELSE res2
             ELSE LET res2 == rangeSearch(f, node.Right, target, r, res1)
                  IN  IF ReachesPlane(diff, r)
                      THEN rangeSearch(f, node.Left, target, r, res2)
                      ELSE res2

-----------------------------------------------------------------------------
(* collision.go: exact fleet detector.  st = [results, seen, calls]; seen is *)
(* the set of <<a, b>> with seen[a][b] = true, calls the pairs the pairwise   *)
(* detector was run on, in order.                                            *)

\* variant of AlreadySeen that looks up one orientation only
AlreadySeenOneWay(seen, a, b) == <<a, b>> \in seen

\* seen[a][b] || seen[b][a]
AlreadySeen(seen, a, b) == <<a, b>> \in seen \/ <<b, a>> \in seen

\* the body of the inner loop of DetectCollisionsWithKDTree for an unseen
\* pair, d being what a.DetectCollisionWith(other, tol) returned
VisitPair(st, a, other, d) ==
    [results |-> IF d.ok THEN Append(st.results, d.event) ELSE st.results,
     seen |-> st.seen \cup {<<a, other>>},
     calls |-> Append(st.calls, <<a, other>>)]

\* the inner loop of DetectCollisionsWithKDTree over neighbors[k..]
RECURSIVE DetectNeighbors(_, _, _, _, _, _)
DetectNeighbors(f, a, neighbors, k, tol, st) ==
    IF k > Len(neighbors) THEN st
    ELSE IF AlreadySeen(st.seen, a, neighbors[k])
    THEN DetectNeighbors(f, a, neighbors, k + 1, tol, st)
    ELSE DetectNeighbors(f, a, neighbors, k + 1, tol,
             VisitPair(st, a, neighbors[k],
                       DetectCollisionWith(f, a, neighbors[k], tol)))

\* the outer loop of DetectCollisionsWithKDTree over order[i..]
RECURSIVE DetectLoop(_, _, _, _, _, _, _)
DetectLoop(f, tree, order, i, tol, radius, st) ==
    IF i > Len(order) THEN st
    ELSE DetectLoop(f, tree, order, i + 1, tol, radius,
             DetectNeighbors(f, order[i], rangeSearch(f, tree, order[i], radius, <<>>),
                             1, tol, st))

\* what DetectCollisionsWithKDTree returns after its loops, with the slice as
\* buildKDTree left it and the calls made
DetectOutcome(st, order) ==
    [agvs |-> order, results |-> st.results, calls |-> st.calls]

\* DetectCollisionsWithKDTree(agvs, tol, radius) on heap f: every outcome
\* [agvs, results, calls], one per order the sorts may produce
DetectCollisionsWithKDTree(f, slice, tol, radius) ==
    {DetectOutcome(DetectLoop(f, b.node, b.agvs, 1, tol, radius,
                              [results |-> <<>>, seen |-> {}, calls |-> <<>>]),
                   b.agvs)
     : b \in buildKDTree(f, slice, 0)}

-----------------------------------------------------------------------------
(* agvPose.go: conflict resolver *)

ScheduleAction(agv, action, waitTime, collision) ==
    [AGV |-> agv, Action |-> action, WaitTime |-> waitTime, Collision |-> collision]

\* variant of ResolveCollision that breaks a tie in favour of AGV2
ResolveCollisionTieSecond(e, safeGap) ==
    IF FLt(e.Time1, e.Time2)
    THEN <<[AGV |-> e.AGV1, Action |-> "GO", WaitTime |-> 0, Collision |-> e],
           [AGV |-> e.AGV2, Action |-> "WAIT",
            WaitTime |-> FSub(FAdd(e.Time1, safeGap), e.Time2), Collision |-> e]>>
    ELSE <<[AGV |-> e.AGV2, Action |-> "GO", WaitTime |-> 0, Collision |-> e],
           [AGV |-> e.AGV1, Action |-> "WAIT",
            WaitTime |-> FSub(FAdd(e.Time2, safeGap), e.Time1), Collision |-> e]>>

\* variant of ResolveCollision that has the second vehicle wait from the
\* later arrival on
ResolveCollisionFromLater(e, safeGap) ==
    IF FLe(e.Time1, e.Time2)
    THEN <<[AGV |-> e.AGV1, Action |-> "GO", WaitTime |-> 0, Collision |-> e],
           [AGV |-> e.AGV2, Action |-> "WAIT",
            WaitTime |-> FSub(FAdd(e.Time2, safeGap), e.Time1), Collision |-> e]>>
    ELSE <<[AGV |-> e.AGV2, Action |-> "GO", WaitTime |-> 0, Collision |-> e],
           [AGV |-> e.AGV1, Action |-> "WAIT",
            WaitTime |-> FSub(FAdd(e.Time1, safeGap), e.Time2), Collision |-> e]>>

\* ResolveCollision(e, safeGap): the pair of actions
ResolveCollision(e, safeGap) ==
    IF FLe(e.Time1, e.Time2)
    THEN <<ScheduleAction(e.AGV1, "GO", 0, e),
           ScheduleAction(e.AGV2, "WAIT", FSub(FAdd(e.Time1, safeGap), e.Time2), e)>>
    ELSE <<ScheduleAction(e.AGV2, "GO", 0, e),
           ScheduleAction(e.AGV1, "WAIT", FSub(FAdd(e.Time2, safeGap), e.Time1), e)>>

RECURSIVE ResolveAll(_, _, _)
ResolveAll(events, k, safeGap) ==
    IF k > Len(events) THEN <<>>
    ELSE ResolveCollision(events[k], safeGap) \o ResolveAll(events, k + 1, safeGap)

\* DetectAndSchedule(agvs, tol, radius, safeGap): every outcome
\* [agvs, events, actions]
DetectAndSchedule(f, slice, tol, radius, safeGap) ==
    {[agvs |-> d.agvs, events |-> d.results, calls |-> d.calls,
      actions |-> ResolveAll(d.results, 1, safeGap)]
     : d \in DetectCollisionsWithKDTree(f, slice, tol, radius)}

-----------------------------------------------------------------------------
(* path.go: sampled fleet detectors.  st = [fleet, seen, collisions, calls,  *)
(* queries]; queries records, for every rangeSearch of the pass, the target, *)
(* the poses the vehicles had when it ran and the neighbours it returned.    *)

RECURSIVE MaxOver(_, _, _)
MaxOver(vals, k, m) ==
    IF k > Len(vals) THEN m
    ELSE MaxOver(vals, k + 1, IF vals[k] > m THEN vals[k] ELSE m)

MaxWidth(f, slice) == MaxOver([k \in 1..Len(slice) |-> f[slice[k]].Width], 1, 0)
MaxSpeed(f, slice) == MaxOver([k \in 1..Len(slice) |-> f[slice[k]].Speed], 1, 0)

calculateOptimalSearchRadius(f, slice, timeRange, collisionThreshold) ==
    LET maxWidth == MaxWidth(f, slice)
        maxSpeed == MaxSpeed(f, slice)
        safetyMargin == maxWidth \div 2
    IN  maxWidth + maxSpeed * timeRange + collisionThreshold + safetyMargin

\* the end of the loop body of the three fleet detectors, r being what
\* agv1.PredictCollisionWith(agv2, ...) returned
MarkPair(st, a, b, r) ==
    [fleet |-> r.fleet,
     seen |-> st.seen \cup {<<a, b>>},
     collisions |-> IF r.found THEN Append(st.collisions, r.collision)
                    ELSE st.collisions,
     calls |-> Append(st.calls, <<a, b>>),
     queries |-> st.queries]

\* the pairwise check that all three fleet detectors end their loop body with
CheckPair(st, a, b, timeRange, timeStep, collisionThreshold) ==
    MarkPair(st, a, b,
             PredictCollisionWith(st.fleet, a, b, timeRange, timeStep, collisionThreshold))

\* the poses of the vehicles of heap f
PosesOf(f) == [id \in DOMAIN f |-> f[id].Pose]

\* st with the rangeSearch for target, and what it returned, recorded
Queried(st, target, neighbors) ==
    [st EXCEPT !.queries = Append(@, [target |-> target, poses |-> PosesOf(st.fleet),
                                      neighbors |-> neighbors])]

\* initialDistance > searchRadius, on squares
BeyondRadius(f, a, b, searchRadius) ==
    IF searchRadius < 0 THEN ~IsNaN(Dist2(f[a].Pose, f[b].Pose))
    ELSE FGt(Dist2(f[a].Pose, f[b].Pose), searchRadius * searchRadius)

\* the inner loop of predictCollisionsForFleetWithKDTree over neighbors[k..]
RECURSIVE KDNeighbors(_, _, _, _, _, _, _, _)
KDNeighbors(st, agv1, neighbors, k, searchRadius, timeRange, timeStep, collisionThreshold) ==
    IF k > Len(neighbors) THEN st
    ELSE LET agv2 == neighbors[k]
         IN  IF \/ agv1 >= agv2
                \/ <<agv1, agv2>> \in st.seen \/ <<agv2, agv1>> \in st.seen
                \/ BeyondRadius(st.fleet, agv1, agv2, searchRadius)
             THEN KDNeighbors(st, agv1, neighbors, k + 1, searchRadius, timeRange,
                              timeStep, collisionThreshold)
             ELSE KDNeighbors(
                      CheckPair(st, agv1, agv2, timeRange, timeStep, collisionThreshold),
                      agv1, neighbors, k + 1, searchRadius, timeRange, timeStep,
                      collisionThreshold)

\* the outer loop of predictCollisionsForFleetWithKDTree over order[i..]; an
\* empty neighbors leaves st as it is
RECURSIVE KDLoop(_, _, _, _, _, _, _, _)
KDLoop(st, tree, order, i, searchRadius, timeRange, timeStep, collisionThreshold) ==
    IF i > Len(order) THEN st
    ELSE LET neighbors == rangeSearch(st.fleet, tree, order[i], searchRadius, <<>>)
         IN  IF neighbors = <<>>
             THEN KDLoop(Queried(st, order[i], <<>>), tree, order, i + 1, searchRadius,
                         timeRange, timeStep, collisionThreshold)
             ELSE KDLoop(KDNeighbors(Queried(st, order[i], neighbors), order[i], neighbors, 1,
                                     searchRadius,
                                     timeRange, timeStep, collisionThreshold),
                         tree, order, i + 1, searchRadius, timeRange, timeStep,
                         collisionThreshold)

FleetStart(f) ==
    [fleet |-> f, seen |-> {}, collisions |-> <<>>, calls |-> <<>>, queries |-> <<>>]

FleetOutcome(st, order) ==
    [fleet |-> st.fleet, agvs |-> order, collisions |-> st.collisions,
     calls |-> st.calls, queries |-> st.queries]

\* predictCollisionsForFleetWithKDTree on heap f: every outcome
\* [fleet, agvs, collisions, calls]
predictCollisionsForFleetWithKDTree(f, slice, timeRange, timeStep, collisionThreshold) ==
    {FleetOutcome(
         KDLoop(FleetStart(f), b.node, b.agvs, 1,
                calculateOptimalSearchRadius(f, slice, timeRange, collisionThreshold),
                timeRange, timeStep, collisionThreshold),
         b.agvs)
     : b \in buildKDTree(f, slice, 0)}

\* the inner loop of PredictCollisionsForFleet: j runs over the indices of
\* neighbors (0-based) and is used as an index of agvs
RECURSIVE FleetNeighbors(_, _, _, _, _, _, _, _)
FleetNeighbors(st, order, i, nNeighbors, j, timeRange, timeStep, collisionThreshold) ==
    IF j >= nNeighbors THEN st
    ELSE LET a == order[i + 1]
             b == order[j + 1]
         IN  IF i >= j \/ <<a, b>> \in st.seen \/ <<b, a>> \in st.seen
             THEN FleetNeighbors(st, order, i, nNeighbors, j + 1, timeRange, timeStep,
                                 collisionThreshold)
             ELSE FleetNeighbors(
                      CheckPair(st, a, b, timeRange, timeStep, collisionThreshold),
                      order, i, nNeighbors, j + 1, timeRange, timeStep,
                      collisionThreshold)

\* the outer loop of PredictCollisionsForFleet over i.. (0-based); an empty
\* neighbors leaves st as it is
RECURSIVE FleetLoop(_, _, _, _, _, _, _, _)
FleetLoop(st, tree, order, i, searchRadius, timeRange, timeStep, collisionThreshold) ==
    IF i >= Len(order) THEN st
    ELSE LET neighbors == rangeSearch(st.fleet, tree, order[i + 1], searchRadius, <<>>)
         IN  IF neighbors = <<>>
             THEN FleetLoop(Queried(st, order[i + 1], <<>>), tree, order, i + 1, searchRadius,
                            timeRange, timeStep, collisionThreshold)
             ELSE FleetLoop(
                      FleetNeighbors(Queried(st, order[i + 1], neighbors), order, i,
                                     Len(neighbors), 0, timeRange,
                                     timeStep, collisionThreshold),
                      tree, order, i + 1, searchRadius, timeRange, timeStep,
                      collisionThreshold)

\* PredictCollisionsForFleet on heap f: every outcome
PredictCollisionsForFleet(f, slice, timeRange, timeStep, collisionThreshold) ==
    {FleetOutcome(
         FleetLoop(FleetStart(f), b.node, b.agvs, 0,
                   MaxWidth(f, slice) + MaxSpeed(f, slice) * timeRange + collisionThreshold,
                   timeRange, timeStep, collisionThreshold),
         b.agvs)
     : b \in buildKDTree(f, slice, 0)}

\* the inner loop of the all-pairs scan of PredictCollisionsForFleetOptimized
\* over j.. (0-based); the two tests that skip a pair are one disjunction,
\* the seen test written first so that st is evaluated at every step
RECURSIVE AllPairsInner(_, _, _, _, _, _, _)
AllPairsInner(st, order, i, j, timeRange, timeStep, collisionThreshold) ==
    IF j >= Len(order) THEN st
    ELSE LET a == order[i + 1]
             b == order[j + 1]
         IN  IF <<a, b>> \in st.seen \/ <<b, a>> \in st.seen \/ i >= j
             THEN AllPairsInner(st, order, i, j + 1, timeRange, timeStep,
                                collisionThreshold)
             ELSE AllPairsInner(
                      CheckPair(st, a, b, timeRange, timeStep, collisionThreshold),
                      order, i, j + 1, timeRange, timeStep, collisionThreshold)

\* the outer loop of the all-pairs scan over i.. (0-based)
RECURSIVE AllPairsLoop(_, _, _, _, _, _)
AllPairsLoop(st, order, i, timeRange, timeStep, collisionThreshold) ==
    IF i >= Len(order) THEN st
    ELSE AllPairsLoop(
             AllPairsInner(st, order, i, 0, timeRange, timeStep, collisionThreshold),
             order, i + 1, timeRange, timeStep, collisionThreshold)

IndexThreshold == 10

\* PredictCollisionsForFleetOptimized on heap f: every outcome
PredictCollisionsForFleetOptimized(f, slice, timeRange, timeStep, collisionThreshold, useSpatialIndex) ==
    IF useSpatialIndex /\ Len(slice) > IndexThreshold
    THEN predictCollisionsForFleetWithKDTree(f, slice, timeRange, timeStep,
                                             collisionThreshold)
    ELSE {FleetOutcome(
              AllPairsLoop(FleetStart(f), slice, 0, timeRange, timeStep,
                           collisionThreshold),
              slice)}

-----------------------------------------------------------------------------
(* Specification SpecKD: a fleet standing on grid points, the index built   *)
(* over it and queried.                                                     *)

MaxRadius == 4

KDIds == {1, 2, 3, 4}
KDPoints == {Point(x, y) : x \in {0, 2, 4}, y \in {0, 2}}

\* vehicles differ in nothing but their place, so the fleets are taken with
\* the places in id order
PointRank(p) == 3 * p.X + p.Y

Standing(id, p) == AGV(id, 2, Pose(p.X, p.Y, <<1, 0>>), 2, <<p>>)

NoOp == [name |-> "none"]

InitKD ==
    /\ \E pos \in [KDIds -> KDPoints] :
           /\ \A i, j \in KDIds : i < j => PointRank(pos[i]) <= PointRank(pos[j])
           /\ fleet = [id \in KDIds |-> Standing(id, pos[id])]
    /\ agvs = <<1, 2, 3, 4>>
    /\ root = Nil
    /\ pre = fleet
    /\ op = NoOp
    /\ ret = <<>>

\* root := buildKDTree(agvs, 0)
BuildKDTree ==
    \E b \in buildKDTree(fleet, agvs, 0) :
        /\ root' = b.node
        /\ agvs' = b.agvs
        /\ pre' = fleet
        /\ op' = [name |-> "buildKDTree"]
        /\ ret' = b.node
        /\ UNCHANGED fleet

\* rangeSearch(root, target, r, &results) with empty results
RangeSearch ==
    /\ root # Nil
    /\ \E target \in DOMAIN fleet, r \in 0..MaxRadius :
        /\ ret' = rangeSearch(fleet, root, target, r, <<>>)
        /\ op' = [name |-> "rangeSearch", target |-> target, r |-> r]
    /\ pre' = fleet
    /\ UNCHANGED <<fleet, agvs, root>>

NextKD == BuildKDTree \/ RangeSearch

SpecKD == InitKD /\ [][NextKD]_vars

NoDuplicates(s) == \A i, j \in 1..Len(s) : i # j => s[i] # s[j]

\* the vehicles other than target within Euclidean distance r of it
BruteForce(f, target, r) ==
    {id \in DOMAIN f : id # target /\ Dist2(f[id].Pose, f[target].Pose) <= r * r}

\* C1: rangeSearch on the tree buildKDTree returned for the fleet appends
\* exactly the vehicles within distance r of the target, each once and
\* without the target: the id set of a brute-force scan.
C1_RangeSearchExact ==
    op.name = "rangeSearch" =>
        /\ NoDuplicates(ret)
        /\ SeqToSet(ret) = BruteForce(fleet, op.target, op.r)

\* C1 witness: a query whose target shares its x with one vehicle and its y
\* with another, that returns some vehicles and leaves others out.
C1_Witness ==
    /\ op.name = "rangeSearch"
    /\ Len(ret) >= 1
    /\ Len(ret) < Cardinality(DOMAIN fleet) - 1
    /\ \E a, b \in DOMAIN fleet \ {op.target} :
           /\ a # b
           /\ fleet[a].Pose.X = fleet[op.target].Pose.X
           /\ fleet[b].Pose.Y = fleet[op.target].Pose.Y
           /\ fleet[a].Pose # fleet[op.target].Pose

-----------------------------------------------------------------------------
(* Specification SpecExact: fleets of two or three vehicles standing at the *)
(* start of their paths; the exact detector, the exact fleet detector and   *)
(* the scheduler are applied to them.  Times (tol, safeGap, arrival times)  *)
(* are in units of 1/TimeScale.                                             *)

MaxTol == 2
MaxSafeGap == 2

PathH == <<Point(0, 0), Point(10, 0)>>
PathV == <<Point(0, 0), Point(0, 10)>>
PathD == <<Point(0, 0), Point(6, 8)>>
PathX == <<Point(4, -4), Point(4, 4)>>
PathZ == <<Point(6, 2), Point(6, -2), Point(10, -2), Point(10, 2)>>
PathL == <<Point(0, 0), Point(2, 0), Point(2, 2)>>
PathU == <<Point(2, 2), Point(2, -2)>>
PathG == <<Point(12, 0), Point(16, 0)>>
PathFar == <<Point(0, 20), Point(4, 20)>>

Reverse(s) == [k \in 1..Len(s) |-> s[Len(s) + 1 - k]]

ExactPaths1 == {PathH, Reverse(PathH), PathV, PathD, Reverse(PathD), PathL}
ExactPaths2 == {PathH, Reverse(PathH), PathV, Reverse(PathV), PathD, Reverse(PathD),
                PathX, PathZ, PathU, PathG, PathFar}
ExactPaths3 == {Reverse(PathH), PathX, PathFar}
ExactSpeeds == {0, 2, 4}
ExactWidths == {2, 4}
ExactRadii == {0, 6, 30}

\* a vehicle standing at the first point of its path
AtStart(id, width, speed, path) ==
    AGV(id, width, Pose(path[1].X, path[1].Y, <<1, 0>>), speed, path)

InitExact ==
    /\ \E p1 \in ExactPaths1, p2 \in ExactPaths2 :
           \/ \E w \in ExactWidths, v1 \in ExactSpeeds, v2 \in ExactSpeeds :
                  /\ fleet = (1 :> AtStart(1, w, v1, p1)) @@ (2 :> AtStart(2, w, v2, p2))
                  /\ agvs = <<1, 2>>
           \/ \E p3 \in ExactPaths3, v2 \in ExactSpeeds \ {0} :
                  /\ fleet = (1 :> AtStart(1, 2, 2, p1)) @@ (2 :> AtStart(2, 2, v2, p2))
                                 @@ (3 :> AtStart(3, 2, 2, p3))
                  /\ agvs = <<1, 2, 3>>
    /\ root = Nil
    /\ pre = fleet
    /\ op = NoOp
    /\ ret = <<>>

Fresh == op = NoOp

\* ok, event := agvs[i].DetectCollisionWith(agvs[j], tol)
DoDetectCollisionWith ==
    /\ Fresh
    /\ \E a \in DOMAIN fleet, b \in DOMAIN fleet, tol \in 0..MaxTol :
        /\ a # b
        /\ op' = [name |-> "DetectCollisionWith", agv |-> a, other |-> b, tol |-> tol]
        /\ ret' = DetectCollisionWith(fleet, a, b, tol)
    /\ pre' = fleet
    /\ UNCHANGED <<fleet, agvs, root>>

\* events := DetectCollisionsWithKDTree(agvs, tol, radius)
DoDetectCollisionsWithKDTree ==
    /\ Fresh
    /\ \E tol \in 0..MaxTol, radius \in ExactRadii :
        \E d \in DetectCollisionsWithKDTree(fleet, agvs, tol, radius) :
            /\ op' = [name |-> "DetectCollisionsWithKDTree", tol |-> tol, radius |-> radius]
            /\ ret' = d
            /\ agvs' = d.agvs
    /\ pre' = fleet
    /\ UNCHANGED <<fleet, root>>

\* actions := DetectAndSchedule(agvs, tol, radius, safeGap)
DoDetectAndSchedule ==
    /\ Fresh
    /\ \E tol \in 0..MaxTol, radius \in ExactRadii, safeGap \in 0..MaxSafeGap :
        \E d \in DetectAndSchedule(fleet, agvs, tol, radius, safeGap) :
            /\ op' = [name |-> "DetectAndSchedule", tol |-> tol, radius |-> radius,
                      safeGap |-> safeGap]
            /\ ret' = d
            /\ agvs' = d.agvs
    /\ pre' = fleet
    /\ UNCHANGED <<fleet, root>>

NextExact == DoDetectCollisionWith \/ DoDetectCollisionsWithKDTree \/ DoDetectAndSchedule

SpecExact == InitExact /\ [][NextExact]_vars

\* C4: two vehicles, A with the lower id, that stand at the two ends of one
\* straight segment and traverse it in opposite directions at the same
\* positive speed: DetectAndSchedule with a radius covering both and
\* safeGap > 0 returns GO with WaitTime 0 for A, then WAIT with WaitTime
\* safeGap for B, both on one event at the segment's midpoint with both
\* arrival times equal to half the length over the speed.
OppositeOnSegment(a, b) ==
    /\ Len(a.Path) = 2
    /\ a.Path[1] # a.Path[2]
    /\ b.Path = Reverse(a.Path)
    /\ a.Speed = b.Speed
    /\ a.Speed > 0

C4_Case ==
    /\ op.name = "DetectAndSchedule"
    /\ DOMAIN fleet = {1, 2}
    /\ OppositeOnSegment(fleet[1], fleet[2])
    /\ op.radius * op.radius >= Dist2(fleet[1].Pose, fleet[2].Pose)
    /\ op.safeGap > 0

MidPoint(p, q) == Point((p.X + q.X) \div 2, (p.Y + q.Y) \div 2)

C4_HeadOnSchedule ==
    C4_Case =>
        LET mid == MidPoint(fleet[1].Path[1], fleet[1].Path[2])
            half == TimeDiv(getDistance(fleet[1].Path[1], mid), fleet[1].Speed)
        IN  /\ Len(ret.actions) = 2
            /\ ret.actions[1].AGV = 1
            /\ ret.actions[1].Action = "GO"
            /\ ret.actions[1].WaitTime = 0
            /\ ret.actions[2].AGV = 2
            /\ ret.actions[2].Action = "WAIT"
            /\ ret.actions[2].WaitTime = op.safeGap
            /\ ret.actions[1].Collision = ret.actions[2].Collision
            /\ ret.actions[1].Collision.Point = mid
            /\ ret.actions[1].Collision.Time1 = half
            /\ ret.actions[1].Collision.Time2 = half

\* C6: in one DetectCollisionsWithKDTree call the pairwise detector runs
\* exactly once for every unordered pair of distinct vehicles standing within
\* radius of each other, never on a vehicle with itself nor on a pair farther
\* apart, and the result holds at most one event per unordered pair.
CallsOn(calls, a, b) ==
    Cardinality({k \in 1..Len(calls) : calls[k] = <<a, b>> \/ calls[k] = <<b, a>>})

C6_OncePerPair ==
    op.name = "DetectCollisionsWithKDTree" =>
        /\ \A k \in 1..Len(ret.calls) :
               /\ ret.calls[k][1] # ret.calls[k][2]
               /\ Dist2(fleet[ret.calls[k][1]].Pose, fleet[ret.calls[k][2]].Pose)
                      <= op.radius * op.radius
        /\ \A a, b \in DOMAIN fleet :
               (a < b /\ Dist2(fleet[a].Pose, fleet[b].Pose) <= op.radius * op.radius)
                   => CallsOn(ret.calls, a, b) = 1
        /\ \A k, l \in 1..Len(ret.results) :
               k # l => {ret.results[k].AGV1, ret.results[k].AGV2}
                            # {ret.results[l].AGV1, ret.results[l].AGV2}

\* C6 witness: a pass over three vehicles in which two pairs are within
\* radius and checked, one pair is out of reach, and an event is reported.
C6_Witness ==
    /\ op.name = "DetectCollisionsWithKDTree"
    /\ Cardinality(DOMAIN fleet) = 3
    /\ Len(ret.calls) = 2
    /\ Len(ret.results) >= 1
    /\ \E a, b \in DOMAIN fleet :
           a # b /\ Dist2(fleet[a].Pose, fleet[b].Pose) > op.radius * op.radius

\* C7: earliestCollision reports found exactly when findAllCollisions yields
\* an intersection with |TimeA - TimeB| <= tol, and then returns one of those
\* with the smallest min(TimeA, TimeB); intersections beyond tol do not count
\* even when they are earlier.
AllOf(a, b) ==
    findAllCollisions(a.Path, b.Path, a.Speed, b.Speed, (a.Width + b.Width) \div 2)

Eligible(all, tol) == {k \in 1..Len(all) : FLe(all[k].TimeDiff, tol)}

C7_EarliestWithinTol ==
    op.name = "DetectCollisionWith" =>
        LET all == AllOf(fleet[op.agv], fleet[op.other])
            el == Eligible(all, op.tol)
        IN  /\ ret.ok <=> el # {}
            /\ ret.ok =>
                   \E k \in el :
                       /\ ret.event.Point = all[k].Point
                       /\ ret.event.Time1 = all[k].TimeA
                       /\ ret.event.Time2 = all[k].TimeB
                       /\ ret.event.DeltaT = all[k].TimeDiff
                       /\ \A j \in el :
                              Min(all[k].TimeA, all[k].TimeB) <= Min(all[j].TimeA, all[j].TimeB)

\* C7 witness: the returned collision is not the first in the list: an
\* earlier intersection lies beyond tol, or a later one is sooner.
C7_Witness ==
    /\ op.name = "DetectCollisionWith"
    /\ ret.ok
    /\ LET all == AllOf(fleet[op.agv], fleet[op.other])
       IN  /\ \E k \in 1..Len(all) :
                  /\ ~FLe(all[k].TimeDiff, op.tol)
                  /\ FLt(Min(all[k].TimeA, all[k].TimeB), Min(ret.event.Time1, ret.event.Time2))
           /\ Cardinality(Eligible(all, op.tol)) >= 1

C7_WitnessLaterSooner ==
    /\ op.name = "DetectCollisionWith"
    /\ ret.ok
    /\ LET all == AllOf(fleet[op.agv], fleet[op.other])
           el == Eligible(all, op.tol)
       IN  \E k \in el : \E j \in el :
               /\ k < j
               /\ Min(all[j].TimeA, all[j].TimeB) < Min(all[k].TimeA, all[k].TimeB)
               /\ ret.event.Time1 = all[j].TimeA
               /\ ret.event.Time2 = all[j].TimeB

\* the side of the line a -> b on which c lies: 1, -1, or 0 when on it
Side(a, b, c) ==
    LET k == cross(b.X - a.X, b.Y - a.Y, c.X - a.X, c.Y - a.Y)
    IN  IF k > 0 THEN 1 ELSE IF k < 0 THEN -1 ELSE 0

\* p is a point of the segment a..b
OnSegment(a, b, p) ==
    /\ Side(a, b, p) = 0
    /\ Min(a.X, b.X) <= p.X /\ p.X <= Max(a.X, b.X)
    /\ Min(a.Y, b.Y) <= p.Y /\ p.Y <= Max(a.Y, b.Y)
    /\ (a = b => p = a)

\* the two segments have a point in common: they cross, or an endpoint of
\* one lies on the other
HaveCommonPoint(s1, s2) ==
    \/ /\ Side(s1.Start, s1.End, s2.Start) * Side(s1.Start, s1.End, s2.End) < 0
       /\ Side(s2.Start, s2.End, s1.Start) * Side(s2.Start, s2.End, s1.End) < 0
    \/ OnSegment(s1.Start, s1.End, s2.Start)
    \/ OnSegment(s1.Start, s1.End, s2.End)
    \/ OnSegment(s2.Start, s2.End, s1.Start)
    \/ OnSegment(s2.Start, s2.End, s1.End)

SegmentsOf(path) == {Segment(path[k], path[k + 1]) : k \in 1..(Len(path) - 1)}

PathsMeet(pathA, pathB) ==
    \E s1 \in SegmentsOf(pathA), s2 \in SegmentsOf(pathB) : HaveCommonPoint(s1, s2)

NonFinite(x) == IsNaN(x) \/ IsInf(x)

\* C14: when a vehicle with speed 0 takes part in DetectCollisionWith and
\* the two paths geometrically intersect, the call reports it: it returns an
\* event with a non-finite arrival time (the signature has no error value),
\* never an ordinary "no collision" nor an event with finite times.
C14_ZeroSpeedReported ==
    (/\ op.name = "DetectCollisionWith"
     /\ (fleet[op.agv].Speed <= 0 \/ fleet[op.other].Speed <= 0)
     /\ PathsMeet(fleet[op.agv].Path, fleet[op.other].Path))
        => /\ ret.ok
           /\ NonFinite(ret.event.Time1) \/ NonFinite(ret.event.Time2)

AllMoving(f) == \A id \in DOMAIN f : f[id].Speed > 0

\* C25: on a fleet whose vehicles all have speed > 0, for every radius, every
\* tol >= 0 and every safeGap >= tol, each WAIT action returned by
\* DetectAndSchedule has safeGap - tol <= WaitTime <= safeGap, so WaitTime >= 0.
C25_WaitTimeBounds ==
    (op.name = "DetectAndSchedule" /\ AllMoving(pre) /\ op.safeGap >= op.tol) =>
        \A k \in 1..Len(ret.actions) :
            ret.actions[k].Action = "WAIT" =>
                /\ ~NonFinite(ret.actions[k].WaitTime)
                /\ op.safeGap - op.tol <= ret.actions[k].WaitTime
                /\ ret.actions[k].WaitTime <= op.safeGap
                /\ ret.actions[k].WaitTime >= 0

\* C25 witness: the two vehicles of an event arrive at different times within
\* tol, and the later one is told to wait less than safeGap
C25_Witness ==
    /\ op.name = "DetectAndSchedule"
    /\ AllMoving(pre)
    /\ op.safeGap >= op.tol
    /\ \E k \in 1..Len(ret.actions) :
           /\ ret.actions[k].Action = "WAIT"
           /\ ret.actions[k].Collision.DeltaT > 0
           /\ ret.actions[k].WaitTime < op.safeGap

\* C26: in the action list returned by one DetectAndSchedule call the
\* instructions for any single vehicle are consistent: no vehicle is told to
\* GO by one event and to WAIT by another event of the same pass.
C26_ConsistentActions ==
    op.name = "DetectAndSchedule" =>
        \A j \in 1..Len(ret.actions), k \in 1..Len(ret.actions) :
            ret.actions[j].AGV = ret.actions[k].AGV =>
                ret.actions[j].Action = ret.actions[k].Action

-----------------------------------------------------------------------------
(* Specification SpecResolve: ResolveCollision applied to hand-built events *)
(* between vehicles 1 and 2 with finite arrival times.                      *)

MaxEventTime == 5

InputEvents ==
    {[AGV1 |-> 1, AGV2 |-> 2, Point |-> ZeroPoint, Time1 |-> t1, Time2 |-> t2,
      DeltaT |-> Abs(t1 - t2)] : t1 \in 0..MaxEventTime, t2 \in 0..MaxEventTime}

InitResolve ==
    /\ fleet = (1 :> AtStart(1, 2, 2, PathH)) @@ (2 :> AtStart(2, 2, 2, Reverse(PathH)))
    /\ agvs = <<1, 2>>
    /\ root = Nil
    /\ pre = fleet
    /\ \E e \in InputEvents, safeGap \in 0..MaxSafeGap :
           op = [name |-> "input", e |-> e, safeGap |-> safeGap]
    /\ ret = <<>>

\* a1, a2 := ResolveCollision(e, safeGap)
DoResolveCollision ==
    /\ op.name = "input"
    /\ op' = [op EXCEPT !.name = "ResolveCollision"]
    /\ ret' = ResolveCollision(op.e, op.safeGap)
    /\ pre' = fleet
    /\ UNCHANGED <<fleet, agvs, root>>

NextResolve == DoResolveCollision

SpecResolve == InitResolve /\ [][NextResolve]_vars

ArrivalOf(e, id) == IF id = e.AGV1 THEN e.Time1 ELSE e.Time2

\* C5: ResolveCollision returns first a GO action with WaitTime 0 for the
\* vehicle that arrives earlier (AGV1 on a tie), second a WAIT action for
\* the other vehicle whose arrival time plus WaitTime equals the proceeding
\* vehicle's arrival time plus safeGap; both actions carry the event.
C5_ResolvePolicy ==
    op.name = "ResolveCollision" =>
        LET e == op.e
            go == ret[1]
            wait == ret[2]
        IN  /\ go.Action = "GO"
            /\ go.WaitTime = 0
            /\ wait.Action = "WAIT"
            /\ {go.AGV, wait.AGV} = {e.AGV1, e.AGV2}
            /\ ArrivalOf(e, go.AGV) <= ArrivalOf(e, wait.AGV)
            /\ e.Time1 = e.Time2 => go.AGV = e.AGV1
            /\ ArrivalOf(e, wait.AGV) + wait.WaitTime = ArrivalOf(e, go.AGV) + op.safeGap
            /\ go.Collision = e
            /\ wait.Collision = e

\* C5 witness: a tie, resolved with a positive safeGap.
C5_Witness ==
    /\ op.name = "ResolveCollision"
    /\ op.e.Time1 = op.e.Time2
    /\ op.safeGap > 0
    /\ ret[2].WaitTime = op.safeGap

-----------------------------------------------------------------------------
(* Specification SpecTrack: one vehicle on an axis-aligned path, tracked by *)
(* repeated GenerateSubPath and PredictPosition calls.                      *)

MaxDt == 3

TrackH == <<Point(0, 0), Point(8, 0)>>
TrackL == <<Point(0, 0), Point(4, 0), Point(4, 4)>>
TrackBack == <<Point(0, 0), Point(4, 0), Point(0, 0)>>
TrackDup == <<Point(2, 0), Point(2, 0), Point(6, 0)>>
TrackPoint == <<Point(2, 2)>>
TrackLine == <<Point(0, 0), Point(4, 0), Point(8, 0)>>

TrackPaths == {TrackH, TrackL, TrackBack, TrackDup, TrackPoint, TrackLine, <<>>}
TrackSpeeds == {0, 2, 4}

\* where a vehicle may stand when it is handed over: on a vertex of its
\* path, or off the path at (2, 2)
TrackStarts(path) == SeqToSet(path) \cup {Point(2, 2)}

InitTrack ==
    /\ \E path \in TrackPaths, v \in TrackSpeeds :
           \E p \in TrackStarts(path) :
               fleet = (1 :> AGV(1, 2, Pose(p.X, p.Y, <<1, 0>>), v, path))
    /\ agvs = <<1>>
    /\ root = Nil
    /\ pre = fleet
    /\ op = NoOp
    /\ ret = <<>>

\* sub := agv.GenerateSubPath()
DoGenerateSubPath ==
    \E id \in DOMAIN fleet :
        \E r \in {GenerateSubPath(fleet[id])} :
            /\ fleet' = [fleet EXCEPT ![id] = r.agv]
            /\ op' = [name |-> "GenerateSubPath", agv |-> id]
            /\ ret' = r.ret
            /\ pre' = fleet
            /\ UNCHANGED <<agvs, root>>

\* pose := agv.PredictPosition(dt)
DoPredictPosition ==
    \E id \in DOMAIN fleet, dt \in 0..MaxDt :
        \E r \in {PredictPosition(fleet[id], dt)} :
            /\ fleet' = [fleet EXCEPT ![id] = r.agv]
            /\ op' = [name |-> "PredictPosition", agv |-> id, dt |-> dt]
            /\ ret' = r.ret
            /\ pre' = fleet
            /\ UNCHANGED <<agvs, root>>

\* where the caller may put a vehicle between two calls
TrackMoves == {Point(2, 2), Point(6, 2), Point(0, 4)}

\* agv.Pose = Pose{X: p.X, Y: p.Y, T: 0}: the caller's position update
DoSetPose ==
    \E id \in DOMAIN fleet, p \in TrackMoves :
        /\ PosePoint(fleet[id].Pose) # p
        /\ fleet' = [fleet EXCEPT ![id].Pose = Pose(p.X, p.Y, <<1, 0>>)]
        /\ op' = [name |-> "SetPose", agv |-> id]
        /\ ret' = <<>>
        /\ pre' = fleet
        /\ UNCHANGED <<agvs, root>>

NextTrack == DoGenerateSubPath \/ DoPredictPosition \/ DoSetPose

SpecTrack == InitTrack /\ [][NextTrack]_vars

\* the point at arc-length S along path, walking from segment k (1-based);
\* the last point when S reaches the end
RECURSIVE ArcPoint(_, _, _)
ArcPoint(path, k, S) ==
    LET len == getDistance(path[k], path[k + 1])
    IN  IF len > 0 /\ S <= len
        THEN Point(path[k].X + ((path[k + 1].X - path[k].X) * S) \div len,
                   path[k].Y + ((path[k + 1].Y - path[k].Y) * S) \div len)
        ELSE IF k + 1 = Len(path) THEN path[k + 1]
        ELSE ArcPoint(path, k + 1, S - len)

PathLength(path) == CumulativeLength(path, Len(path) - 1)

SegmentHeading(path, k) == Atan2(path[k + 1].Y - path[k].Y, path[k + 1].X - path[k].X)

\* the headings of the segments whose cumulative-length interval contains S
HeadingsAt(path, S) ==
    {SegmentHeading(path, k) : k \in {j \in 1..(Len(path) - 1) :
        CumulativeLength(path, j - 1) <= S /\ S <= CumulativeLength(path, j)}}

\* C10: PredictPosition(dt) on a sub-path of at least 2 points returns the
\* point at arc-length S = speed*dt along the sub-path from its first point:
\* the final point with the final segment's heading when S >= the sub-path's
\* length, else the interpolated point of the segment whose interval holds S,
\* with that segment's heading; on fewer than 2 points, the pose unchanged.
C10_PredictAtArcLength ==
    op.name = "PredictPosition" =>
        LET before == pre[op.agv]
            sub == GenerateSubPath(before).ret
            S == before.Speed * op.dt
        IN  IF Len(sub) < 2 THEN ret = before.Pose
            ELSE /\ PosePoint(ret) = ArcPoint(sub, 1, S)
                 /\ IF S >= PathLength(sub)
                    THEN ret.T = SegmentHeading(sub, Len(sub) - 1)
                    ELSE ret.T \in HeadingsAt(sub, S)

\* a path of at least two points, all segments non-degenerate and of one
\* heading
Straight(path) ==
    /\ Len(path) >= 2
    /\ \A k \in 1..(Len(path) - 1) :
           /\ path[k] # path[k + 1]
           /\ SegmentHeading(path, k) = SegmentHeading(path, 1)

\* the point at arc-length S ahead of the place of agv on its track: the
\* projection of its pose on the basis GenerateSubPath takes, then S along
\* the rest, capped at the end
AheadOf(agv, S) ==
    LET sub == GenerateSubPath(agv).ret
    IN  IF Len(sub) < 2 THEN PosePoint(agv.Pose) ELSE ArcPoint(sub, 1, S)

\* C11: after every PredictPosition call the stored Pose is the returned
\* pose, and on a straight path PredictPosition(d1) followed by
\* PredictPosition(d2) leaves the vehicle at arc-length speed*(d1+d2) from
\* the pose it had before the first call, capped at the path's end.
C11_CommitAndCompound ==
    [][op'.name = "PredictPosition" =>
           /\ fleet'[op'.agv].Pose = ret'
           /\ (op.name = "PredictPosition" /\ Straight(fleet[op'.agv].Path)) =>
                  PosePoint(ret') = AheadOf(pre[op.agv], pre[op.agv].Speed * (op.dt + op'.dt))]_vars

\* the basis GenerateSubPath takes for agv
BasisOf(agv) ==
    IF ~agv.InitDone \/ Len(agv.SubPath) < 2 THEN agv.Path ELSE agv.SubPath

\* the clamped projection of the pose of agv on segment i (0-based) of basis
ProjectionOn(agv, basis, i) ==
    projectPointOnSegment(agv.Pose, Segment(basis[i + 1], basis[i + 2])).P

\* the square of the distance from the pose of agv to that projection
ProjectionDist2(agv, basis, i) ==
    Dist2(PosePoint(agv.Pose), ProjectionOn(agv, basis, i))

\* segment i is the lowest-index segment of basis whose projection is at
\* minimum distance from the pose
LowestNearest(agv, basis, i) ==
    \A j \in 0..(Len(basis) - 2) :
        /\ FLe(ProjectionDist2(agv, basis, i), ProjectionDist2(agv, basis, j))
        /\ j < i => FLt(ProjectionDist2(agv, basis, i), ProjectionDist2(agv, basis, j))

\* C12: GenerateSubPath on a basis of n >= 2 points returns and caches
\* [p] + basis[i+1 .. n-1], i being the lowest-index segment whose clamped
\* projection of the pose is nearest to it and p that projection, sets
\* InitDone and leaves Pose and Path alone; on a basis of fewer than 2 points
\* it returns the basis and leaves SubPath unchanged.
C12_SubPathContract ==
    op.name = "GenerateSubPath" =>
        LET before == pre[op.agv]
            after == fleet[op.agv]
            basis == BasisOf(before)
        IN  IF Len(basis) >= 2
            THEN /\ \E i \in 0..(Len(basis) - 2) :
                        /\ LowestNearest(before, basis, i)
                        /\ ret = <<ProjectionOn(before, basis, i)>>
                                     \o SubSeq(basis, i + 2, Len(basis))
                 /\ after.SubPath = ret
                 /\ after.InitDone
                 /\ after.Pose = before.Pose
                 /\ after.Path = before.Path
            ELSE /\ ret = basis
                 /\ after.SubPath = before.SubPath

IsSuffix(s, t) ==
    Len(s) <= Len(t) /\ s = SubSeq(t, Len(t) - Len(s) + 1, Len(t))

\* C22: for a vehicle whose Path has at least 2 points, once GenerateSubPath
\* has run and after any further GenerateSubPath and PredictPosition calls,
\* wherever the vehicle is put in between, SubPath has at least 2 points, its
\* points after the first are a suffix of Path and its last point is the last
\* point of Path; so the rebuild from the full Path never fires again.
C22_SubPathCache ==
    \A id \in DOMAIN fleet :
        (Len(fleet[id].Path) >= 2 /\ fleet[id].InitDone) =>
            /\ Len(fleet[id].SubPath) >= 2
            /\ IsSuffix(Tail(fleet[id].SubPath), fleet[id].Path)
            /\ fleet[id].SubPath[Len(fleet[id].SubPath)] = fleet[id].Path[Len(fleet[id].Path)]
            /\ BasisOf(fleet[id]) = fleet[id].SubPath

\* C22 witness: a tracked vehicle on a path of three points or more was
\* advanced again and its sub-path is down to its last segment
C22_Witness ==
    /\ op.name = "PredictPosition"
    /\ pre[op.agv].InitDone
    /\ Len(fleet[op.agv].Path) >= 3
    /\ Len(pre[op.agv].SubPath) > 2
    /\ Len(fleet[op.agv].SubPath) = 2

\* p is a point of one of the segments of path
OnPath(path, p) ==
    \E k \in 1..(Len(path) - 1) : OnSegment(path[k], path[k + 1], p)

FinitePose(pose) == ~NonFinite(pose.X) /\ ~NonFinite(pose.Y)

\* C24: PredictPosition never divides by a zero segment length and never
\* yields an undefined pose: for every speed >= 0, every dt >= 0 and every
\* pose on the path, a pose on an interior vertex included, the returned
\* position is a well-defined point of the sub-path.
C24_WellDefinedPose ==
    (/\ op.name = "PredictPosition"
     /\ FinitePose(pre[op.agv].Pose)
     /\ OnPath(pre[op.agv].Path, PosePoint(pre[op.agv].Pose)))
        => /\ FinitePose(ret)
           /\ OnPath(fleet[op.agv].SubPath, PosePoint(ret))

-----------------------------------------------------------------------------
(* Specification SpecPredict: two vehicles on axis-aligned paths, checked   *)
(* against each other by PredictCollisionWith, call after call.             *)

MaxTimeRange == 3

PredictPaths1 == {TrackH, TrackL}
PredictPaths2 == {Reverse(TrackH), <<Point(4, -4), Point(4, 4)>>,
                  <<Point(8, 2), Point(0, 2)>>, <<Point(6, 0), Point(6, 8)>>}
PredictSteps == {0, 2}
PredictThresholds == {0, 4}

InitPredict ==
    /\ \E p1 \in PredictPaths1, p2 \in PredictPaths2,
          v1 \in {2}, v2 \in {0, 2} :
           fleet = (1 :> AtStart(1, 2, v1, p1)) @@ (2 :> AtStart(2, 2, v2, p2))
    /\ agvs = <<1, 2>>
    /\ root = Nil
    /\ pre = fleet
    /\ op = NoOp
    /\ ret = <<>>

\* found, prediction := agvs[a].PredictCollisionWith(agvs[b], timeRange, timeStep, threshold)
DoPredictCollisionWith ==
    \E a \in DOMAIN fleet, b \in DOMAIN fleet, timeRange \in 0..MaxTimeRange,
       timeStep \in PredictSteps, threshold \in PredictThresholds :
        /\ a < b
        /\ \E r \in {PredictCollisionWith(fleet, a, b, timeRange, timeStep, threshold)} :
            /\ fleet' = r.fleet
            /\ op' = [name |-> "PredictCollisionWith", agv |-> a, other |-> b,
                      timeRange |-> timeRange, timeStep |-> timeStep,
                      threshold |-> threshold]
            /\ ret' = [found |-> r.found, collision |-> r.collision,
                       samples |-> r.samples, threshold |-> r.threshold]
            /\ pre' = fleet
            /\ UNCHANGED <<agvs, root>>

NextPredict == DoPredictCollisionWith

SpecPredict == InitPredict /\ [][NextPredict]_vars

EffectiveStep(timeStep) == IF timeStep <= 0 THEN DefaultTimeStep ELSE timeStep

\* the samples of the last PredictCollisionWith at which the two forecast
\* poses were within the threshold
HitSamples ==
    {k \in 1..Len(ret.samples) :
        LET d == Dist2(ret.samples[k].pose1, ret.samples[k].pose2)
        IN  ~IsNaN(d) /\ d <= ret.threshold * ret.threshold}

PositionAfter(agv, t) ==
    LET sub == GenerateSubPath(agv).ret
    IN  IF Len(sub) < 2 THEN PosePoint(agv.Pose) ELSE ArcPoint(sub, 1, agv.Speed * t)

\* C9: the pose PredictCollisionWith forecasts for each vehicle at sample
\* time t is the vehicle's position at time t, so CollisionTime is the time
\* at which the recorded poses are reached.
C9_ForecastAtSampleTime ==
    op.name = "PredictCollisionWith" =>
        /\ \A k \in 1..Len(ret.samples) :
               /\ PosePoint(ret.samples[k].pose1) = PositionAfter(pre[op.agv], ret.samples[k].t)
               /\ PosePoint(ret.samples[k].pose2) = PositionAfter(pre[op.other], ret.samples[k].t)
        /\ ret.found =>
               /\ PosePoint(ret.collision.AGV1Pose)
                      = PositionAfter(pre[op.agv], ret.collision.CollisionTime)
               /\ PosePoint(ret.collision.AGV2Pose)
                      = PositionAfter(pre[op.other], ret.collision.CollisionTime)

-----------------------------------------------------------------------------
(* Specification SpecFleet: three vehicles at the start of axis-aligned     *)
(* paths, handed once to one of the fleet-level detectors.                  *)

MaxFleetRange == 2

FleetH == <<Point(0, 0), Point(12, 0)>>
FleetNear == <<Point(0, 4), Point(12, 4)>>
FleetUp == <<Point(6, 0), Point(6, 12)>>
FleetBack == <<Point(12, 0), Point(0, 0)>>
FleetFar == <<Point(0, 20), Point(12, 20)>>
FleetAway == <<Point(20, 20), Point(20, 32)>>

FleetPaths1 == {FleetH, FleetNear}
FleetPaths2 == {FleetFar, FleetBack, FleetUp}
FleetPaths3 == {FleetUp, FleetAway, FleetBack}
FleetSpeeds == {0, 2}
FleetSteps == {0, 2}
FleetThresholds == {0, 2}
FleetRadii == {6, 30}

InitFleet ==
    /\ \E p1 \in FleetPaths1, p2 \in FleetPaths2, p3 \in FleetPaths3,
          v2 \in FleetSpeeds, v3 \in FleetSpeeds :
           fleet = (1 :> AtStart(1, 2, 2, p1)) @@ (2 :> AtStart(2, 2, v2, p2))
                       @@ (3 :> AtStart(3, 2, v3, p3))
    /\ agvs = <<1, 2, 3>>
    /\ root = Nil
    /\ pre = fleet
    /\ op = NoOp
    /\ ret = <<>>

\* events := DetectCollisionsWithKDTree(agvs, 0, radius)
DoFleetDetect ==
    /\ Fresh
    /\ \E radius \in FleetRadii :
        \E d \in DetectCollisionsWithKDTree(fleet, agvs, 0, radius) :
            /\ op' = [name |-> "DetectCollisionsWithKDTree", tol |-> 0,
                      radius |-> radius, threshold |-> 0]
            /\ ret' = [collisions |-> d.results, calls |-> d.calls]
            /\ agvs' = d.agvs
    /\ pre' = fleet
    /\ UNCHANGED <<fleet, root>>

\* collisions := PredictCollisionsForFleet(agvs, timeRange, timeStep, threshold)
DoPredictCollisionsForFleet ==
    /\ Fresh
    /\ \E timeRange \in 0..MaxFleetRange, timeStep \in FleetSteps,
          threshold \in FleetThresholds :
        \E d \in PredictCollisionsForFleet(fleet, agvs, timeRange, timeStep, threshold) :
            /\ op' = [name |-> "PredictCollisionsForFleet", timeRange |-> timeRange,
                      timeStep |-> timeStep, threshold |-> threshold]
            /\ ret' = [collisions |-> d.collisions, calls |-> d.calls,
                       queries |-> d.queries]
            /\ fleet' = d.fleet
            /\ agvs' = d.agvs
    /\ pre' = fleet
    /\ UNCHANGED root

\* collisions := PredictCollisionsForFleetOptimized(agvs, timeRange, timeStep,
\*                                                  threshold, useSpatialIndex)
DoPredictCollisionsForFleetOptimized ==
    /\ Fresh
    /\ \E timeRange \in 0..MaxFleetRange, timeStep \in FleetSteps,
          threshold \in FleetThresholds, useSpatialIndex \in BOOLEAN :
        \E d \in PredictCollisionsForFleetOptimized(fleet, agvs, timeRange, timeStep,
                                                    threshold, useSpatialIndex) :
            /\ op' = [name |-> "PredictCollisionsForFleetOptimized",
                      timeRange |-> timeRange, timeStep |-> timeStep,
                      threshold |-> threshold, useSpatialIndex |-> useSpatialIndex]
            /\ ret' = [collisions |-> d.collisions, calls |-> d.calls,
                       queries |-> d.queries]
            /\ fleet' = d.fleet
            /\ agvs' = d.agvs
    /\ pre' = fleet
    /\ UNCHANGED root

\* collisions := predictCollisionsForFleetWithKDTree(agvs, timeRange, timeStep, threshold)
DoPredictWithKDTree ==
    /\ Fresh
    /\ \E timeRange \in 0..MaxFleetRange, timeStep \in FleetSteps,
          threshold \in FleetThresholds :
        \E d \in predictCollisionsForFleetWithKDTree(fleet, agvs, timeRange, timeStep,
                                                     threshold) :
            /\ op' = [name |-> "predictCollisionsForFleetWithKDTree",
                      timeRange |-> timeRange, timeStep |-> timeStep,
                      threshold |-> threshold]
            /\ ret' = [collisions |-> d.collisions, calls |-> d.calls,
                       queries |-> d.queries]
            /\ fleet' = d.fleet
            /\ agvs' = d.agvs
    /\ pre' = fleet
    /\ UNCHANGED root

NextFleet ==
    \/ DoFleetDetect
    \/ DoPredictCollisionsForFleet
    \/ DoPredictCollisionsForFleetOptimized
    \/ DoPredictWithKDTree

SpecFleet == InitFleet /\ [][NextFleet]_vars

FleetOps == {"DetectCollisionsWithKDTree", "PredictCollisionsForFleet",
             "PredictCollisionsForFleetOptimized"}

\* where a vehicle is after k half units of time, moving along its path at
\* its speed from its pose (speeds are even)
PositionAtHalf(agv, k) ==
    LET sub == GenerateSubPath(agv).ret
    IN  IF Len(sub) < 2 THEN PosePoint(agv.Pose)
        ELSE ArcPoint(sub, 1, (agv.Speed \div 2) * k)

\* the number of half units of time after which every vehicle has stopped
StoppedBy(f) ==
    MaxOver([k \in 1..Cardinality(DOMAIN f) |->
                IF f[k].Speed = 0 THEN 0 ELSE (2 * PathLength(f[k].Path)) \div f[k].Speed + 1],
            1, 0)

\* two points that move in a straight line from a0 to a1 and from b0 to b1
\* in the same time come within thr of each other on the way
ComeWithin(a0, a1, b0, b1, thr) ==
    LET px == a0.X - b0.X
        py == a0.Y - b0.Y
        vx == (a1.X - b1.X) - px
        vy == (a1.Y - b1.Y) - py
        pp == px * px + py * py
        vv == vx * vx + vy * vy
        pv == px * vx + py * vy
    IN  \/ pp <= thr * thr
        \/ Dist2(a1, b1) <= thr * thr
        \/ /\ 0 < -pv
           /\ -pv < vv
           /\ pp * vv - pv * pv <= thr * thr * vv

\* vehicles a and b of f are within thr of each other at some time
EverWithin(f, a, b, thr) ==
    \E k \in 0..StoppedBy(f) :
        ComeWithin(PositionAtHalf(f[a], k), PositionAtHalf(f[a], k + 1),
                   PositionAtHalf(f[b], k), PositionAtHalf(f[b], k + 1), thr)

PairThreshold(f, a, b, threshold) ==
    IF threshold <= 0 THEN (f[a].Width + f[b].Width) \div 2 ELSE threshold

\* no pair of f is ever within the collision threshold
ConflictFree(f, threshold) ==
    \A a \in DOMAIN f, b \in DOMAIN f :
        a < b => ~EverWithin(f, a, b, PairThreshold(f, a, b, threshold))

\* C2: on a fleet in which no two vehicles, each moving along its path at its
\* speed from its initial pose, are ever within the collision threshold of
\* each other at the same time, every fleet-level detector returns an empty
\* result.
C2_ConflictFreeEmpty ==
    (op.name \in FleetOps /\ ConflictFree(pre, op.threshold)) => ret.collisions = <<>>

IndexedPredictors == {"PredictCollisionsForFleet", "predictCollisionsForFleetWithKDTree"}

\* C19: in a fleet-level pass that uses the index no vehicle's Pose changes
\* between the build of the KD-tree and any later rangeSearch on it: every
\* query of the pass runs with the poses the tree was built from.
C19_PosesFixedDuringPass ==
    /\ op.name \in IndexedPredictors =>
           \A k \in 1..Len(ret.queries) : ret.queries[k].poses = PosesOf(pre)
    /\ op.name = "DetectCollisionsWithKDTree" => PosesOf(fleet) = PosesOf(pre)

\* the search radius of the PredictCollisionsForFleet pass that just ran
PassRadius == MaxWidth(pre, agvs) + MaxSpeed(pre, agvs) * op.timeRange + op.threshold

\* how often the pass ran the predictive detector on the unordered pair {a, b}
ChecksOf(a, b) ==
    Cardinality({k \in 1..Len(ret.calls) : ret.calls[k] \in {<<a, b>>, <<b, a>>}})

\* the second vehicle of the k-th check was returned by the query for the first
FromQuery(k) ==
    \E q \in 1..Len(ret.queries) :
        /\ ret.queries[q].target = ret.calls[k][1]
        /\ ret.calls[k][2] \in SeqToSet(ret.queries[q].neighbors)

\* C21: PredictCollisionsForFleet runs the predictive detector on each vehicle
\* paired with the neighbours its radius query returned: every unordered pair
\* of vehicles within the search radius maxWidth + maxSpeed*timeRange +
\* threshold is checked exactly once, and no pair is checked whose second
\* vehicle was not returned by the query for the first.
C21_NeighbourPairsOnce ==
    op.name = "PredictCollisionsForFleet" =>
        /\ \A a \in DOMAIN pre, b \in DOMAIN pre :
               (a < b /\ Dist2(pre[a].Pose, pre[b].Pose) <= PassRadius * PassRadius)
                   => ChecksOf(a, b) = 1
        /\ \A k \in 1..Len(ret.calls) : FromQuery(k)

-----------------------------------------------------------------------------
(* Specification SpecBig: eleven vehicles, three of them near the origin    *)
(* and eight parked apart on a diagonal, handed once to                     *)
(* PredictCollisionsForFleetOptimized.                                      *)

MaxBigRange == 3

BigLong == <<Point(0, 0), Point(40, 0)>>
BigPost == <<Point(14, 0), Point(14, 12)>>

BigPaths1 == {FleetH, BigLong}
BigPaths2 == {FleetUp, BigPost, FleetBack}
BigPaths3 == {FleetFar, FleetNear}
BigParked == 4..11

\* the parked vehicle k: 20 apart in x and in y, a path of length 4
Parked(k) ==
    AtStart(k, 2, 2, <<Point(100 + 20 * k, 100 + 20 * k), Point(104 + 20 * k, 100 + 20 * k)>>)

InitBig ==
    /\ \E p1 \in BigPaths1, p2 \in BigPaths2, p3 \in BigPaths3, v2 \in FleetSpeeds :
           fleet = [k \in 1..11 |->
                       IF k = 1 THEN AtStart(1, 2, 2, p1)
                       ELSE IF k = 2 THEN AtStart(2, 2, v2, p2)
                       ELSE IF k = 3 THEN AtStart(3, 2, 0, p3)
                       ELSE Parked(k)]
    /\ agvs = [k \in 1..11 |-> k]
    /\ root = Nil
    /\ pre = fleet
    /\ op = NoOp
    /\ ret = <<>>

\* collisions := PredictCollisionsForFleetOptimized(agvs, timeRange, timeStep,
\*                                                  threshold, useSpatialIndex)
DoOptimized ==
    /\ Fresh
    /\ \E timeRange \in 0..MaxBigRange, timeStep \in FleetSteps,
          threshold \in FleetThresholds, useSpatialIndex \in BOOLEAN :
        \E d \in PredictCollisionsForFleetOptimized(fleet, agvs, timeRange, timeStep,
                                                    threshold, useSpatialIndex) :
            /\ op' = [name |-> "PredictCollisionsForFleetOptimized", slice |-> agvs,
                      timeRange |-> timeRange, timeStep |-> timeStep,
                      threshold |-> threshold, useSpatialIndex |-> useSpatialIndex]
            /\ ret' = [collisions |-> d.collisions, calls |-> d.calls,
                       queries |-> d.queries]
            /\ fleet' = d.fleet
            /\ agvs' = d.agvs
    /\ pre' = fleet
    /\ UNCHANGED root

NextBig == DoOptimized

SpecBig == InitBig /\ [][NextBig]_vars

\* the unordered pairs a result reports
ReportedPairs(collisions) ==
    {{collisions[k].AGV1, collisions[k].AGV2} : k \in 1..Len(collisions)}

\* the pairs the all-pairs scan reports on the fleet and arguments of the
\* last call
AllPairsReported ==
    UNION {ReportedPairs(d.collisions) :
           d \in PredictCollisionsForFleetOptimized(pre, op.slice, op.timeRange,
                                                    op.timeStep, op.threshold, FALSE)}

\* C3: on the same fleet of more than 10 vehicles and the same timeRange,
\* timeStep and threshold, PredictCollisionsForFleetOptimized with
\* useSpatialIndex = true reports exactly the unordered pairs it reports with
\* useSpatialIndex = false.
C3_IndexSamePairs ==
    (op.name = "PredictCollisionsForFleetOptimized" /\ op.useSpatialIndex
         /\ Len(op.slice) > 10)
        => ReportedPairs(ret.collisions) = AllPairsReported

-----------------------------------------------------------------------------
(* Specification SpecSeg: segmentIntersect and segmentDistance applied to    *)
(* pairs of segments between points of three lines (y = 0, x = 4, y = x)    *)
(* and of the parallels y = 8 and x = 8, degenerate segments included.      *)

MaxSegWidth == 2

SegPoints == {Point(0, 0), Point(4, 0), Point(8, 0), Point(2, 2), Point(4, 4),
              Point(4, 8), Point(8, 8)}

SegSegments == {Segment(a, b) : a \in SegPoints, b \in SegPoints}

\* the widths, in steps of 2
SegWidths == {2 * k : k \in 0..MaxSegWidth}

\* the quotient seg.Start + ab*t of closestPointOnSegment(p, seg) is exact
ExactClosest(p, seg) ==
    LET abx == seg.End.X - seg.Start.X
        aby == seg.End.Y - seg.Start.Y
        ab2 == abx * abx + aby * aby
        tn == ClampedDot(dot(p.X - seg.Start.X, p.Y - seg.Start.Y, abx, aby), ab2)
    IN  IF ab2 = 0 THEN TRUE ELSE (abx * tn) % ab2 = 0 /\ (aby * tn) % ab2 = 0

\* the quotients s1.Start + t*d1 of segmentIntersect(s1, s2) are exact
ExactCrossing(s1, s2) ==
    LET dx1 == s1.End.X - s1.Start.X
        dy1 == s1.End.Y - s1.Start.Y
        denom == cross(dx1, dy1, s2.End.X - s2.Start.X, s2.End.Y - s2.Start.Y)
        tn == cross(s2.Start.X - s1.Start.X, s2.Start.Y - s1.Start.Y,
                    s2.End.X - s2.Start.X, s2.End.Y - s2.Start.Y)
    IN  IF denom = 0 THEN TRUE
        ELSE (tn * dx1) % Abs(denom) = 0 /\ (tn * dy1) % Abs(denom) = 0

ExactPair(s1, s2) ==
    /\ ExactCrossing(s1, s2)
    /\ ExactClosest(s1.Start, s2) /\ ExactClosest(s1.End, s2)
    /\ ExactClosest(s2.Start, s1) /\ ExactClosest(s2.End, s1)

InitSeg ==
    /\ fleet = <<>>
    /\ agvs = <<>>
    /\ root = Nil
    /\ pre = fleet
    /\ \E s1 \in SegSegments, s2 \in SegSegments, width \in SegWidths :
           /\ ExactPair(s1, s2)
           /\ op = [name |-> "input", s1 |-> s1, s2 |-> s2, width |-> width]
    /\ ret = <<>>

\* ok, pt := segmentIntersect(s1, s2, width)
DoSegmentIntersect ==
    /\ op.name = "input"
    /\ op' = [op EXCEPT !.name = "segmentIntersect"]
    /\ ret' = segmentIntersect(op.s1, op.s2, op.width)
    /\ UNCHANGED <<fleet, agvs, root, pre>>

\* d, pt := segmentDistance(s1, s2)
DoSegmentDistance ==
    /\ op.name = "input"
    /\ op' = [op EXCEPT !.name = "segmentDistance"]
    /\ ret' = segmentDistance(op.s1, op.s2)
    /\ UNCHANGED <<fleet, agvs, root, pre>>

NextSeg == DoSegmentIntersect \/ DoSegmentDistance

SpecSeg == InitSeg /\ [][NextSeg]_vars

NonDegenerate(seg) == seg.Start # seg.End

\* both ends of s2 lie on the line through s1
Collinear(s1, s2) ==
    /\ Side(s1.Start, s1.End, s2.Start) = 0
    /\ Side(s1.Start, s1.End, s2.End) = 0

Parallel(s1, s2) ==
    cross(s1.End.X - s1.Start.X, s1.End.Y - s1.Start.Y,
          s2.End.X - s2.Start.X, s2.End.Y - s2.Start.Y) = 0

OnBoth(s1, s2, p) ==
    OnSegment(s1.Start, s1.End, p) /\ OnSegment(s2.Start, s2.End, p)

\* C15: for two non-degenerate collinear segments whose extents overlap and
\* width = 0, segmentIntersect reports an intersection and the returned
\* point lies on both segments.
C15_CollinearOverlap ==
    (/\ op.name = "segmentIntersect"
     /\ op.width = 0
     /\ NonDegenerate(op.s1) /\ NonDegenerate(op.s2)
     /\ Collinear(op.s1, op.s2)
     /\ HaveCommonPoint(op.s1, op.s2))
        => ret.ok /\ OnBoth(op.s1, op.s2, ret.pt)

\* C16: for two non-parallel segments with a common point P,
\* segmentIntersect reports an intersection and returns P; when their lines
\* cross outside either segment it reports none, for every width.
C16_CrossingRoundTrip ==
    (op.name = "segmentIntersect" /\ ~Parallel(op.s1, op.s2)) =>
        IF HaveCommonPoint(op.s1, op.s2)
        THEN ret.ok /\ OnBoth(op.s1, op.s2, ret.pt)
        ELSE ~ret.ok

\* C16 witness: two segments that cross in the interior of both, and the
\* crossing is reported with a width above 0
C16_Witness ==
    /\ op.name = "segmentIntersect"
    /\ ~Parallel(op.s1, op.s2)
    /\ op.width > 0
    /\ ret.ok
    /\ ret.pt \notin {op.s1.Start, op.s1.End, op.s2.Start, op.s2.End}

\* C16 witness: the lines of two non-parallel segments cross outside one of
\* them and nothing is reported although the width is above 0
C16_WitnessOutside ==
    /\ op.name = "segmentIntersect"
    /\ ~Parallel(op.s1, op.s2)
    /\ op.width > 0
    /\ ~ret.ok

\* C17: with width = 0 segmentIntersect reports an intersection only when
\* the two segments have a point in common: none for parallel non-collinear
\* segments, for collinear segments with disjoint extents, and for a
\* degenerate segment, in either position, that does not lie on the other.
C17_OnlyCommonPoint ==
    (op.name = "segmentIntersect" /\ op.width = 0 /\ ret.ok)
        => HaveCommonPoint(op.s1, op.s2)

\* the square of the distance from p to the segment seg
PointSegmentDist2(p, seg) == Dist2(p, closestPointOnSegment(p, seg))

\* the four endpoint-to-opposite-segment pairs <<endpoint, closest point>>
EndpointPairs(s1, s2) ==
    {<<s1.Start, closestPointOnSegment(s1.Start, s2)>>,
     <<s1.End, closestPointOnSegment(s1.End, s2)>>,
     <<s2.Start, closestPointOnSegment(s2.Start, s1)>>,
     <<s2.End, closestPointOnSegment(s2.End, s1)>>}

\* the square of the minimum distance between two segments that do not meet
MinDist2(s1, s2) ==
    LET ds == {Dist2(e[1], e[2]) : e \in EndpointPairs(s1, s2)}
    IN  CHOOSE d \in ds : \A o \in ds : d <= o

\* C18: for two segments that do not intersect, segmentDistance returns the
\* minimum Euclidean distance between them, the minimum over the four
\* endpoint-to-closest-point distances, with a closest point that achieves
\* it; two parallel segments a positive distance apart do not yield 0.
C18_TrueMinimumDistance ==
    (op.name = "segmentDistance" /\ ~HaveCommonPoint(op.s1, op.s2)) =>
        /\ ret.minD = MinDist2(op.s1, op.s2)
        /\ \E e \in EndpointPairs(op.s1, op.s2) :
               e[2] = ret.best /\ Dist2(e[1], e[2]) = MinDist2(op.s1, op.s2)

-----------------------------------------------------------------------------
(* Specification SpecFrame: two vehicles in use, each handed over either    *)
(* fresh at the start of its path or advanced along it and tracked, and     *)
(* every operation of the package that takes vehicles applied to them: the  *)
(* exact detectors once on the fleet as handed over, the tracker and the    *)
(* sampled detector call after call.                                        *)

MaxAdvance == 2

FrameH == <<Point(0, 0), Point(4, 0)>>
FrameUp == <<Point(2, -2), Point(2, 2)>>

FramePaths1 == {FrameH}
FramePaths2 == {Reverse(FrameH), FrameUp}
FrameSlice == <<1, 2>>

\* the vehicle as it is handed over: fresh, or after agv.PredictPosition(n)
\* and agv.GenerateSubPath()
Handed(agv, n) ==
    IF n = 0 THEN agv ELSE GenerateSubPath(PredictPosition(agv, n).agv).agv

InitFrame ==
    /\ \E p1 \in FramePaths1, p2 \in FramePaths2,
          n1 \in 0..MaxAdvance, n2 \in 0..MaxAdvance :
           fleet = (1 :> Handed(AtStart(1, 2, 2, p1), n1))
                       @@ (2 :> Handed(AtStart(2, 2, 2, p2), n2))
    /\ agvs = FrameSlice
    /\ root = Nil
    /\ pre = fleet
    /\ op = NoOp
    /\ ret = <<>>

NextFrame ==
    \/ DoDetectCollisionWith
    \/ DoDetectCollisionsWithKDTree
    \/ DoDetectAndSchedule
    \/ DoGenerateSubPath
    \/ DoPredictPosition
    \/ DoPredictCollisionWith
    \/ DoPredictCollisionsForFleet
    \/ DoPredictWithKDTree
    \/ DoPredictCollisionsForFleetOptimized

SpecFrame == InitFrame /\ [][NextFrame]_vars

ExactOps == {"DetectCollisionWith", "DetectCollisionsWithKDTree", "DetectAndSchedule"}
FleetPredictors == {"PredictCollisionsForFleet", "predictCollisionsForFleetWithKDTree",
                    "PredictCollisionsForFleetOptimized"}

\* the fleet with nothing but Id, Path, Speed and Width
Bare(f) ==
    [id \in DOMAIN f |-> AGV(f[id].Id, f[id].Width, ZeroPose, f[id].Speed, f[id].Path)]

\* the fleet with nothing but Id, Path, Speed, Width and the position
Placed(f) ==
    [id \in DOMAIN f |->
        AGV(f[id].Id, f[id].Width, Pose(f[id].Pose.X, f[id].Pose.Y, <<1, 0>>),
            f[id].Speed, f[id].Path)]

\* the exact operations leave every vehicle as it was and return what they
\* return on a fleet stripped of everything but Path, Speed and Width (the
\* fleet variants: and the positions)
ExactOpsPure ==
    /\ op.name \in ExactOps =>
           \A id \in DOMAIN fleet :
               /\ fleet[id].Pose = pre[id].Pose
               /\ fleet[id].SubPath = pre[id].SubPath
               /\ fleet[id].InitDone = pre[id].InitDone
               /\ fleet[id].Path = pre[id].Path
               /\ fleet[id].Speed = pre[id].Speed
               /\ fleet[id].Width = pre[id].Width
    /\ op.name = "DetectCollisionWith" =>
           ret = DetectCollisionWith(Bare(pre), op.agv, op.other, op.tol)
    /\ op.name = "DetectCollisionsWithKDTree" =>
           ret \in DetectCollisionsWithKDTree(Placed(pre), FrameSlice, op.tol, op.radius)
    /\ op.name = "DetectAndSchedule" =>
           ret \in DetectAndSchedule(Placed(pre), FrameSlice, op.tol, op.radius, op.safeGap)

PoseChanged == \E id \in DOMAIN fleet : fleet[id].Pose # pre[id].Pose
SubPathChanged == \E id \in DOMAIN fleet : fleet[id].SubPath # pre[id].SubPath

\* C20 as amended: the exact detection operations are pure with respect to
\* vehicle state and their result depends only on Path, Speed and Width (the
\* fleet variants also on the positions); a Pose is changed only by
\* PredictPosition, by PredictCollisionWith and by the fleet predictors that
\* call it, a SubPath only by these and by GenerateSubPath.
C20_ExactPureOthersMutate ==
    /\ ExactOpsPure
    /\ PoseChanged =>
           op.name \in {"PredictPosition", "PredictCollisionWith"} \cup FleetPredictors
    /\ SubPathChanged =>
           op.name \in {"PredictPosition", "PredictCollisionWith", "GenerateSubPath"}
                           \cup FleetPredictors

\* an exact check of a vehicle that has been advanced along its path and
\* tracked found a conflict
C20_Witness ==
    /\ op.name = "DetectCollisionWith"
    /\ pre[op.agv].InitDone
    /\ pre[op.agv].SubPath # pre[op.agv].Path
    /\ PosePoint(pre[op.agv].Pose) # pre[op.agv].Path[1]
    /\ ret.ok

\* C20 as stated: the exact detection operations are pure with respect to
\* vehicle state, and PredictPosition and PredictCollisionWith are the only
\* operations that change a Pose or a SubPath.
C20_OnlyPredictMutates ==
    /\ ExactOpsPure
    /\ (PoseChanged \/ SubPathChanged) =>
           op.name \in {"PredictPosition", "PredictCollisionWith"}

-----------------------------------------------------------------------------
(* Specification SpecRun: one vehicle of positive speed standing on a       *)
(* vertex of its path is advanced by PredictPosition(dt), call after call   *)
(* with the same dt > 0.  op.turn alternates with the calls, so that two    *)
(* calls in a row are two steps even when the vehicle does not move.  The   *)
(* caller keeps calling: weak fairness on the call.                         *)

RunLoop == <<Point(0, 0), Point(10, 0), Point(0, 0)>>
RunTurn == <<Point(0, 0), Point(6, 0), Point(2, 0)>>

RunPaths == {TrackH, TrackL, TrackBack, TrackDup, TrackLine, RunLoop, RunTurn}
RunSpeeds == {2, 4}

InitRun ==
    /\ \E path \in RunPaths, v \in RunSpeeds, dt \in 1..MaxDt :
           \E p \in SeqToSet(path) :
               /\ fleet = (1 :> AGV(1, 2, Pose(p.X, p.Y, <<1, 0>>), v, path))
               /\ op = [name |-> "handed", agv |-> 1, dt |-> dt, turn |-> 0]
    /\ agvs = <<1>>
    /\ root = Nil
    /\ pre = fleet
    /\ ret = <<>>

\* the caller makes its next call, with the dt of the run
CallAgain ==
    op' = [name |-> "PredictPosition", agv |-> op.agv, dt |-> op.dt, turn |-> 1 - op.turn]

\* pose := agv.PredictPosition(dt)
DoPredictAgain ==
    \E r \in {PredictPosition(fleet[op.agv], op.dt)} :
        /\ fleet' = [fleet EXCEPT ![op.agv] = r.agv]
        /\ CallAgain
        /\ ret' = r.ret
        /\ pre' = fleet
        /\ UNCHANGED <<agvs, root>>

NextRun == DoPredictAgain

SpecRun == InitRun /\ [][NextRun]_vars /\ WF_op(CallAgain)

\* the vehicle stands on the final point of its path
AtPathEnd(agv) == PosePoint(agv.Pose) = agv.Path[Len(agv.Path)]

\* C23: a vehicle of positive speed that starts on its path and is advanced
\* by PredictPosition(dt) with a fixed dt > 0, call after call, is eventually
\* placed at the final point of its path and stays there: it never keeps
\* returning the same non-final position.
C23_ReachesPathEnd == <>[](\A id \in DOMAIN fleet : AtPathEnd(fleet[id]))

====
